---- MODULE Spec2Model ----
(***************************************************************************)
(* A model of the remote-operation orchestration layer of gemini-rag-mcp:  *)
(* GeminiClient (src/src/clients/gemini-client.ts) and the tool handlers   *)
(* that call it.                                                           *)
(*                                                                         *)
(* Optional values of the TypeScript code (x?: T, T | null, T | undefined) *)
(* are sequences of length at most one: <<>> is the absent value and <<v>> *)
(* the present value v.                                                    *)
(***************************************************************************)
EXTENDS Integers, Sequences, FiniteSets, TLC

VARIABLES
    \* ---- the backend and the callers of the store resolver
    stores,      \* the backend's FileSearchStores, in the backend's list order
    pc,          \* per caller: where its current GeminiClient call stands
    op,          \* per caller: the operation it called
    arg,         \* per caller: the displayName argument of that call
    listed,      \* per caller: the array listStores() returned to it
    found,       \* per caller: what findStoreByDisplayName returned to it
    result,      \* per caller: what the call returned or threw
    requests,    \* per caller: create requests the current call has issued
    appended,    \* per caller: stores the current call has added to the backend
    startLen,    \* per caller: Len(stores) when the call began
    startSeq,    \* per caller: number of calls completed when the call began
    startHad,    \* per caller: whether the backend held a store with the
                 \* requested display name when the call began
    completed,   \* the calls that have returned or thrown, in completion order
    \* ---- the callers of the operation poller
    wpc,         \* per caller: where its waitForOperationDone call stands
    operation,   \* per caller: the `operation` argument of that call
    current,     \* per caller: the local variable `current`
    received,    \* per caller: the value the last operations.get resolved to
    trace,       \* per caller: the call's checks, sleeps and get requests, in order
    outcome,     \* per caller: what the call returned or threw
    \* ---- the callers of the ingestion pipeline
    upc,         \* per caller: where its uploadFile / uploadContent call stands
    ucall,       \* per caller: the arguments of that call
    uresult,     \* per caller: what the call returned or threw
    uploads,     \* the upload requests submitted to the backend, in order
    \* ---- the callers of queryStore
    qpc,         \* per caller: where its queryStore call stands
    qcall,       \* per caller: the arguments of that call
    qresult,     \* per caller: what the call returned or threw
    generations, \* the generateContent requests sent to the backend, in order
    \* ---- the tool registry
    toolInstances,   \* the Map of tool name to tool instance, in insertion order
    registeredTools, \* the names pushed by setupToolHandlers, in order
    \* ---- a function of the program applied to one input
    input,       \* the arguments
    output       \* the value returned, once the function has run

storeVars == <<stores, pc, op, arg, listed, found, result, requests, appended,
               startLen, startSeq, startHad, completed>>
pollVars  == <<wpc, operation, current, received, trace, outcome>>
ingestVars == <<upc, ucall, uresult, uploads>>
queryVars == <<qpc, qcall, qresult, generations>>
registryVars == <<toolInstances, registeredTools>>
pureVars  == <<input, output>>
vars      == <<storeVars, pollVars, ingestVars, queryVars, registryVars, pureVars>>

\* What the store operations, and what the poller alone, leave as it is.
exceptStore == <<pollVars, ingestVars, queryVars, registryVars, pureVars>>
exceptPoll  == <<storeVars, ingestVars, queryVars, registryVars, pureVars>>

(***************************************************************************)
(* Bounds of the model.                                                    *)
(***************************************************************************)
MaxInitStores == 2      \* stores the backend holds before the first call
MaxCalls      == 2      \* GeminiClient store calls made in one behaviour
MaxPolls      == 3      \* operations.get requests one poller call may issue

Procs == {"a", "b"}     \* independent caller requests in flight

None == <<>>
Some(v) == <<v>>

(***************************************************************************)
(* Stores.                                                                 *)
(***************************************************************************)
\* Display names callers ask for, and those backend stores carry: they
\* differ in one character only, so that exact equality matters.
DisplayNames == {"docs", "Docs"}

\* The identifier the backend assigns to the i-th store it holds.
StoreId(i) == "fileSearchStores/" \o ToString(i)

\* A store as the backend reports it: both fields may be missing.
BackendStore(i, named, dn) ==
    [name |-> IF named THEN Some(StoreId(i)) ELSE None, displayName |-> dn]

\* The shapes of the stores the backend holds before the first call: with
\* or without a display name, and one whose identifier is missing.
StoreShapes ==
    {<<TRUE, None>>, <<TRUE, Some("docs")>>, <<TRUE, Some("Docs")>>,
     <<FALSE, Some("docs")>>}

\* The states the backend can be in before the first call.
InitBackends ==
    UNION { { [i \in 1..n |-> BackendStore(i, f[i][1], f[i][2])] :
                f \in [1..n -> StoreShapes] } :
            n \in 0..MaxInitStores }

DefaultPageSize == 20

Min(a, b) == IF a < b THEN a ELSE b

\* The k-th page of the backend's paginated list.
Page(backend, pageSize, k) ==
    SubSeq(backend, (k - 1) * pageSize + 1, Min(k * pageSize, Len(backend)))

\* stores.push({ name: store.name ?? "", displayName: store.displayName })
ToFileSearchStore(s) ==
    [name |-> IF s.name = None THEN "" ELSE s.name[1], displayName |-> s.displayName]

\* A pager that hands out full pages only and drops a last, shorter one.
PagerFullPagesOnly(backend, pageSize, k) ==
    LET n == (Len(backend) \div pageSize) * pageSize
    IN  [i \in 1..n |-> ToFileSearchStore(backend[i])]

RECURSIVE PagerFrom(_, _, _)
\* `for await (const store of pager)`: the pager yields the stores of page k,
\* then fetches page k+1 while the backend reports one.
PagerFrom(backend, pageSize, k) ==
    LET page == Page(backend, pageSize, k)
        here == [i \in 1..Len(page) |-> ToFileSearchStore(page[i])]
    IN  IF k * pageSize >= Len(backend)
        THEN here
        ELSE here \o PagerFrom(backend, pageSize, k + 1)

\* A listing that stops after the first page.
ListFirstPage(backend, pageSize) ==
    LET page == Page(backend, pageSize, 1)
    IN  [i \in 1..Len(page) |-> ToFileSearchStore(page[i])]

ListStores(backend, pageSize) == PagerFrom(backend, pageSize, 1)

RECURSIVE FindFrom(_, _, _)
\* Array.prototype.find with the predicate store.displayName === displayName
FindFrom(list, displayName, i) ==
    IF i > Len(list) THEN None
    ELSE IF list[i].displayName = Some(displayName) THEN Some(list[i])
    ELSE FindFrom(list, displayName, i + 1)

\* A slip of the predicate: the store's name compared with the display name.
FindByName(list, displayName) ==
    LET hits == { i \in 1..Len(list) : list[i].name = displayName }
    IN  IF hits = {} THEN None
        ELSE Some(list[CHOOSE i \in hits : \A j \in hits : i <= j])

\* A slip of the scan: the last match instead of the first.
FindLast(list, displayName) ==
    LET hits == { i \in 1..Len(list) : list[i].displayName = Some(displayName) }
    IN  IF hits = {} THEN None
        ELSE Some(list[CHOOSE i \in hits : \A j \in hits : i >= j])

FindStoreByDisplayName(list, displayName) == FindFrom(list, displayName, 1)

\* The store the backend adds for create({ config: { displayName } }).
NewStoreNoDisplayName(backend, displayName) ==
    [name |-> Some(StoreId(Len(backend) + 1)), displayName |-> None]

NewStore(backend, displayName) ==
    [name |-> Some(StoreId(Len(backend) + 1)), displayName |-> Some(displayName)]

\* A backend with an atomic create-if-absent, which the real one lacks.
BackendCreateIfAbsent(backend, displayName) ==
    LET hits == { i \in 1..Len(backend) : backend[i].displayName = Some(displayName) }
    IN  IF hits # {}
        THEN [backend |-> backend,
              created |-> backend[CHOOSE i \in hits : \A j \in hits : i <= j]]
        ELSE [backend |-> Append(backend, NewStore(backend, displayName)),
              created |-> NewStore(backend, displayName)]

\* fileSearchStores.create: the backend always adds a store, and answers
\* with it.
BackendCreate(backend, displayName) ==
    [backend |-> Append(backend, NewStore(backend, displayName)),
     created |-> NewStore(backend, displayName)]

(***************************************************************************)
(* The store resolver: ensureStore, findStoreByDisplayName and the         *)
(* ensure_store tool, each a sequence of suspending backend requests.      *)
(***************************************************************************)
StoreOps == {"ensureStore", "findStoreByDisplayName", "ensure_store"}

\* context.storeDisplayName, the display name the tools are configured with.
StoreDisplayName == "docs"

\* Whether the backend holds a store with display name d.
Holds(backend, d) == \E i \in 1..Len(backend) : backend[i].displayName = Some(d)

\* A slip of the branch: the test of the match inverted.
ReturnsAfterScanInverted(match, o) == match = None \/ o = "findStoreByDisplayName"

\* if (foundStore) return foundStore; and findStoreByDisplayName, which
\* returns after its scan whatever it found.
ReturnsAfterScan(match, o) == match # None \/ o = "findStoreByDisplayName"

Returned(store) == [store |-> store, message |-> ""]
Threw(message)  == [store |-> None, message |-> message]

InFlight == { p \in Procs : pc[p] \in {"list", "create"} }

\* Callers carry no identity: a new call takes the first slot not in use.
FreeSlot == IF pc["a"] \notin {"list", "create"} THEN "a" ELSE "b"

\* The entry of `completed` for the call of p that ends now.
Completion(p, status, res, req, app, backend) ==
    [op |-> op[p], displayName |-> arg[p], status |-> status,
     store |-> res.store, requests |-> req, appended |-> app,
     startLen |-> startLen[p], endLen |-> Len(backend), startSeq |-> startSeq[p],
     startHad |-> startHad[p]]

StoreIdle ==
    /\ pc = [p \in Procs |-> "idle"]
    /\ op = [p \in Procs |-> "ensureStore"]
    /\ arg = [p \in Procs |-> "docs"]
    /\ listed = [p \in Procs |-> <<>>]
    /\ found = [p \in Procs |-> None]
    /\ result = [p \in Procs |-> Returned(None)]
    /\ requests = [p \in Procs |-> 0]
    /\ appended = [p \in Procs |-> 0]
    /\ startLen = [p \in Procs |-> 0]
    /\ startSeq = [p \in Procs |-> 0]
    /\ startHad = [p \in Procs |-> FALSE]
    /\ completed = <<>>

\* The entry of a call: its bookkeeping, and the list request it begins
\* with.
CallBody(p, o, d) ==
    /\ pc' = [pc EXCEPT ![p] = "list"]
    /\ op' = [op EXCEPT ![p] = o]
    /\ arg' = [arg EXCEPT ![p] = d]
    /\ listed' = [listed EXCEPT ![p] = <<>>]
    /\ found' = [found EXCEPT ![p] = None]
    /\ result' = [result EXCEPT ![p] = Returned(None)]
    /\ requests' = [requests EXCEPT ![p] = 0]
    /\ appended' = [appended EXCEPT ![p] = 0]
    /\ startLen' = [startLen EXCEPT ![p] = Len(stores)]
    /\ startSeq' = [startSeq EXCEPT ![p] = Len(completed)]
    /\ startHad' = [startHad EXCEPT ![p] = Holds(stores, d)]
    /\ UNCHANGED <<stores, completed>>

\* A caller invokes ensureStore(d), findStoreByDisplayName(d) or the
\* ensure_store tool, which takes the configured display name: each begins
\* with listStores().
Call(p, o, d) ==
    /\ p = FreeSlot
    /\ o = "ensure_store" => d = StoreDisplayName
    /\ pc[p] \notin {"list", "create"}
    /\ Len(completed) + Cardinality(InFlight) < MaxCalls
    /\ CallBody(p, o, d)
    /\ UNCHANGED exceptStore

\* The list request fails: the rejection propagates out of the call.
ListStoresThrows(p) ==
    /\ pc[p] = "list"
    /\ pc' = [pc EXCEPT ![p] = "threw"]
    /\ result' = [result EXCEPT ![p] = Threw("list request failed")]
    /\ completed' = Append(completed,
            Completion(p, "threw", Threw("list request failed"), 0, 0, stores))
    /\ UNCHANGED <<stores, op, arg, listed, found, requests, appended,
                   startLen, startSeq, startHad>>
    /\ UNCHANGED exceptStore

\* listStores() resolves; findStoreByDisplayName scans the array; the caller
\* returns the match, returns null, or goes on to createStore.
ListStoresReturns(p) ==
    /\ pc[p] = "list"
    /\ LET list  == ListStores(stores, DefaultPageSize)
           match == FindStoreByDisplayName(list, arg[p])
       IN  /\ listed' = [listed EXCEPT ![p] = list]
           /\ found' = [found EXCEPT ![p] = match]
           /\ IF ReturnsAfterScan(match, op[p])
              THEN /\ pc' = [pc EXCEPT ![p] = "returned"]
                   /\ result' = [result EXCEPT ![p] = Returned(match)]
                   /\ completed' = Append(completed,
                          Completion(p, "returned", Returned(match), 0, 0, stores))
                   /\ UNCHANGED requests
              ELSE /\ pc' = [pc EXCEPT ![p] = "create"]
                   /\ requests' = [requests EXCEPT ![p] = 1]
                   /\ UNCHANGED <<result, completed>>
    /\ UNCHANGED <<stores, op, arg, appended, startLen, startSeq, startHad>>
    /\ UNCHANGED exceptStore

\* The create request fails before the backend acts on it.
CreateStoreThrows(p) ==
    /\ pc[p] = "create"
    /\ pc' = [pc EXCEPT ![p] = "threw"]
    /\ result' = [result EXCEPT ![p] = Threw("create request failed")]
    /\ completed' = Append(completed,
            Completion(p, "threw", Threw("create request failed"), 1, 0, stores))
    /\ UNCHANGED <<stores, op, arg, listed, found, requests, appended,
                   startLen, startSeq, startHad>>
    /\ UNCHANGED exceptStore

\* fileSearchStores.create resolves: the backend has added the store. A
\* response without a name makes createStore throw (the store stays in the
\* backend); otherwise the new handle is returned.
CreateStoreReturns(p, named) ==
    /\ pc[p] = "create"
    /\ LET r       == BackendCreate(stores, arg[p])
           app     == Len(r.backend) - Len(stores)
           created == IF named THEN r.created
                      ELSE [r.created EXCEPT !.name = None]
           res     == IF created.name = None \/ created.name = Some("")
                      THEN Threw("Failed to create FileSearchStore")
                      ELSE Returned(Some([name |-> created.name[1],
                                          displayName |-> created.displayName]))
           status  == IF res.message = "" THEN "returned" ELSE "threw"
       IN  /\ stores' = r.backend
           /\ appended' = [appended EXCEPT ![p] = app]
           /\ pc' = [pc EXCEPT ![p] = status]
           /\ result' = [result EXCEPT ![p] = res]
           /\ completed' = Append(completed,
                  Completion(p, status, res, 1, app, r.backend))
    /\ UNCHANGED <<op, arg, listed, found, requests, startLen, startSeq, startHad>>
    /\ UNCHANGED exceptStore

NextStore ==
    \E p \in Procs :
        \/ \E o \in StoreOps, d \in DisplayNames : Call(p, o, d)
        \/ ListStoresThrows(p)
        \/ ListStoresReturns(p)
        \/ CreateStoreThrows(p)
        \/ \E named \in BOOLEAN : CreateStoreReturns(p, named)

(***************************************************************************)
(* Operation snapshots. A value the backend hands back is described by its *)
(* JavaScript type; an operation object has optional fields done and error.*)
(***************************************************************************)
\* Error payloads of a failed operation: with a message, with an empty
\* message, without a message field, and the empty object.
ErrorPayloads ==
    { [message |-> Some("quota exceeded"), code |-> Some(8)],
      [message |-> Some(""), code |-> Some(3)],
      [message |-> None, code |-> Some(13)],
      [message |-> None, code |-> None] }

OperationObject(done, error) ==
    [typeof |-> "object", isNull |-> FALSE, done |-> done, error |-> error]

\* The operation objects of the model: finished ones without and with each
\* error payload, and unfinished ones (done false or missing).
Operations ==
    { OperationObject(Some(TRUE), e) : e \in {None} \cup { Some(x) : x \in ErrorPayloads } }
    \cup { OperationObject(Some(FALSE), None),
           OperationObject(Some(FALSE), Some([message |-> None, code |-> Some(13)])),
           OperationObject(None, None) }

Primitive(t) == [typeof |-> t, isNull |-> FALSE, done |-> None, error |-> None]

\* typeof null is "object" in JavaScript.
Null == [typeof |-> "object", isNull |-> TRUE, done |-> None, error |-> None]

NotOperations ==
    {Null} \cup { Primitive(t) : t \in {"undefined", "number", "string", "boolean"} }

\* What operations.get may resolve to.
Refreshes == Operations \cup NotOperations

\* JSON.stringify of an error payload: the fields it has, in order.
JSONStringify(e) ==
    LET m == IF e.message = None THEN ""
             ELSE "\"message\":\"" \o e.message[1] \o "\""
        c == IF e.code = None THEN "" ELSE "\"code\":" \o ToString(e.code[1])
        sep == IF m # "" /\ c # "" THEN "," ELSE ""
    IN  "{" \o m \o sep \o c \o "}"

\* A slip of the fallback: || instead of ??, which also replaces "".
ErrorMessageOr(e) ==
    IF e.message = None \/ e.message = Some("") THEN JSONStringify(e) ELSE e.message[1]

\* current.error.message ?? JSON.stringify(current.error)
ErrorMessage(e) ==
    IF e.message = None THEN JSONStringify(e) ELSE e.message[1]

PollIntervalMs == 5000

Event(e, ms) == [e |-> e, ms |-> ms]

Count(t, e) == Cardinality({ i \in 1..Len(t) : t[i].e = e })
Sleeps(p) == Count(trace[p], "sleep")
Gets(p)   == Count(trace[p], "get")

\* A loop that gives up after two refreshes.
LoopBounded(t) == Count(t, "get") < 2

\* for (;;): the loop has no condition.
LoopCondition(t) == TRUE

\* A slip of the test: done compared with the string "true".
IsDoneAsString(cur) == FALSE

\* current.done === true
IsDone(cur) == cur.done = Some(TRUE)

\* if (current.error)
HasError(cur) == cur.error # None

\* A slip of the test: null passes, since typeof null is "object".
IsNotObjectOnly(next) == next.typeof # "object"

\* typeof next !== "object" || next === null
IsNotObject(next) == next.typeof # "object" \/ next.isNull

\* A loop that fetches the next snapshot without sleeping.
NoTimer(t, pollMs) == t

\* await new Promise((resolve) => setTimeout(resolve, pollMs))
StartTimer(t, pollMs) == Append(t, Event("sleep", pollMs))

PollReturned(cur) == [operation |-> cur, message |-> ""]
PollThrew(message) == [operation |-> None, message |-> message]

\* One pass of the loop body down to the sleep, on snapshot cur with the
\* events t so far: [wpc, trace, outcome].
LoopPass(cur, t) ==
    IF ~LoopCondition(t)
    THEN [wpc |-> "returned", trace |-> t, outcome |-> Some(PollReturned(None))]
    ELSE LET checked == Append(t, Event("check", 0))
         IN  IF IsDone(cur)
             THEN IF HasError(cur)
                  THEN [wpc |-> "threw", trace |-> checked,
                        outcome |-> Some(PollThrew(ErrorMessage(cur.error[1])))]
                  ELSE [wpc |-> "returned", trace |-> checked,
                        outcome |-> Some(PollReturned(Some(cur)))]
             ELSE [wpc |-> "sleeping", trace |-> StartTimer(checked, PollIntervalMs),
                   outcome |-> None]

PollIdle ==
    /\ wpc = [p \in Procs |-> "idle"]
    /\ operation = [p \in Procs |-> None]
    /\ current = [p \in Procs |-> None]
    /\ received = [p \in Procs |-> None]
    /\ trace = [p \in Procs |-> <<>>]
    /\ outcome = [p \in Procs |-> None]

\* The body of waitForOperationDone(operation, 5000) from its call to its
\* first suspension or to its end.
PollStart(p, o) ==
    /\ wpc[p] = "idle"
    /\ LET r == LoopPass(o, <<>>)
       IN  /\ wpc' = [wpc EXCEPT ![p] = r.wpc]
           /\ trace' = [trace EXCEPT ![p] = r.trace]
           /\ outcome' = [outcome EXCEPT ![p] = r.outcome]
    /\ operation' = [operation EXCEPT ![p] = Some(o)]
    /\ current' = [current EXCEPT ![p] = Some(o)]
    /\ UNCHANGED received

\* waitForOperationDone(operation, 5000) is called and runs to its first
\* suspension or to its end.
WaitForOperationDone(p, o) ==
    /\ PollStart(p, o)
    /\ UNCHANGED exceptPoll

\* The timer fires and the call issues operations.get({ operation: current }).
TimerFires(p) ==
    /\ wpc[p] = "sleeping"
    /\ Gets(p) < MaxPolls
    /\ wpc' = [wpc EXCEPT ![p] = "getting"]
    /\ trace' = [trace EXCEPT ![p] = Append(@, Event("get", 0))]
    /\ UNCHANGED <<operation, current, received, outcome>>
    /\ UNCHANGED exceptPoll

\* operations.get rejects: the rejection propagates out of the call.
GetThrows(p) ==
    /\ wpc[p] = "getting"
    /\ wpc' = [wpc EXCEPT ![p] = "threw"]
    /\ outcome' = [outcome EXCEPT ![p] = Some(PollThrew("operation get request failed"))]
    /\ UNCHANGED <<operation, current, received, trace>>
    /\ UNCHANGED exceptPoll

\* operations.get resolves to next: a value that is no object ends the call
\* with an error, an object becomes `current` and the loop goes round.
GetReturns(p, next) ==
    /\ wpc[p] = "getting"
    /\ received' = [received EXCEPT ![p] = Some(next)]
    /\ IF IsNotObject(next)
       THEN /\ wpc' = [wpc EXCEPT ![p] = "threw"]
            /\ outcome' = [outcome EXCEPT ![p] =
                   Some(PollThrew("Invalid operation state received while polling"))]
            /\ UNCHANGED <<current, trace>>
       ELSE LET r == LoopPass(next, trace[p])
            IN  /\ current' = [current EXCEPT ![p] = Some(next)]
                /\ wpc' = [wpc EXCEPT ![p] = r.wpc]
                /\ trace' = [trace EXCEPT ![p] = r.trace]
                /\ outcome' = [outcome EXCEPT ![p] = r.outcome]
    /\ UNCHANGED operation
    /\ UNCHANGED exceptPoll

NextPoll ==
    \E p \in Procs :
        \/ \E o \in Operations : WaitForOperationDone(p, o)
        \/ TimerFires(p)
        \/ GetThrows(p)
        \/ \E next \in Refreshes : GetReturns(p, next)

IngestIdle ==
    /\ upc = [p \in Procs |-> "idle"]
    /\ ucall = [p \in Procs |-> None]
    /\ uresult = [p \in Procs |-> None]
    /\ uploads = <<>>

QueryIdle ==
    /\ qpc = [p \in Procs |-> "idle"]
    /\ qcall = [p \in Procs |-> None]
    /\ qresult = [p \in Procs |-> None]
    /\ generations = <<>>

RegistryIdle == toolInstances = <<>> /\ registeredTools = <<>>

PureIdle == QueryIdle /\ RegistryIdle /\ input = None /\ output = None

InitStore == stores \in InitBackends /\ StoreIdle /\ PollIdle /\ IngestIdle /\ PureIdle

InitPoll == stores = <<>> /\ StoreIdle /\ PollIdle /\ IngestIdle /\ PureIdle

\* The store resolver, with concurrent callers.
SpecStore == InitStore /\ [][NextStore]_vars

\* The operation poller, with concurrent callers.
SpecPoll == InitPoll /\ [][NextPoll]_vars

(***************************************************************************)
(* Properties of the store resolver, checked under SpecStore.              *)
(***************************************************************************)
Calls == 1..Len(completed)

\* Call j began after call i had ended.
Sequential(i, j) == i < j /\ completed[j].startSeq >= i

\* From the beginning of call i to the end of call j the backend changed
\* only through those two calls.
Undisturbed(i, j) ==
    completed[j].endLen - completed[i].startLen
        = completed[i].appended + completed[j].appended

\* Two ensureStore calls for the same display name, one after the other,
\* with no one else changing the backend meanwhile.
EnsureTwice(i, j) ==
    /\ completed[i].op = "ensureStore"
    /\ completed[j].op = "ensureStore"
    /\ completed[i].displayName = completed[j].displayName
    /\ Sequential(i, j)
    /\ Undisturbed(i, j)

NumHolding(backend, d) ==
    Cardinality({ k \in 1..Len(backend) : backend[k].displayName = Some(d) })

\* C1: two ensureStore(d) calls run one after the other, with no other
\* change of the backend in between, return the same store name, whatever
\* d and whatever stores the backend held before.
C1_EnsureStoreTwiceSameName ==
    \A i, j \in Calls :
        (/\ EnsureTwice(i, j)
         /\ completed[i].status = "returned"
         /\ completed[j].status = "returned")
        => /\ completed[i].store # None
           /\ completed[j].store # None
           /\ completed[i].store[1].name = completed[j].store[1].name

\* The case of C1: two such calls have returned, the stores of the backend
\* carrying the display name more than once.
C1_Witness ==
    \E i, j \in Calls :
        /\ EnsureTwice(i, j)
        /\ completed[i].status = "returned"
        /\ completed[j].status = "returned"
        /\ completed[i].requests = 0
        /\ NumHolding(stores, completed[i].displayName) >= 2

\* C2: when no store has display name d, a first ensureStore(d) that
\* returns has issued exactly one create request, which added one store; a
\* second ensureStore(d) run after it issues none, and the backend then
\* holds exactly one store with display name d.
C2_FirstCreatesSecondReuses ==
    \A i, j \in Calls :
        (/\ EnsureTwice(i, j)
         /\ ~completed[i].startHad
         /\ completed[i].status = "returned")
        => /\ completed[i].requests = 1
           /\ completed[i].appended = 1
           /\ completed[j].requests = 0
           /\ completed[j].appended = 0
           /\ Len(stores) = completed[j].endLen
                => NumHolding(stores, completed[i].displayName) = 1

\* The case of C2: the first call created the store, the second returned.
C2_Witness ==
    \E i, j \in Calls :
        /\ EnsureTwice(i, j)
        /\ ~completed[i].startHad
        /\ completed[i].status = "returned"
        /\ completed[j].status = "returned"
        /\ completed[j].store = completed[i].store
        /\ Len(stores) = completed[j].endLen

\* Call j began before call i ended, and i ended first.
Overlap(i, j) == i < j /\ completed[j].startSeq < i

\* C3: two ensureStore(d) calls that both found no store named d and whose
\* creates both succeeded have each added a store of their own: the backend
\* holds two distinct stores with display name d and the calls returned
\* different names.
C3_RaceCreatesTwoStores ==
    \A i, j \in Calls :
        (/\ i # j
         /\ completed[i].op = "ensureStore"
         /\ completed[j].op = "ensureStore"
         /\ completed[i].displayName = completed[j].displayName
         /\ completed[i].requests = 1 /\ completed[i].status = "returned"
         /\ completed[j].requests = 1 /\ completed[j].status = "returned")
        => /\ completed[i].store[1].name # completed[j].store[1].name
           /\ \A c \in {i, j} :
                \E k \in 1..Len(stores) :
                    /\ stores[k].name = Some(completed[c].store[1].name)
                    /\ stores[k].displayName = Some(completed[c].displayName)

\* The case of C3: two overlapping ensureStore(d) calls, neither finding a
\* store named d when it began, have returned different names, and the
\* backend holds two stores with display name d.
C3_Witness ==
    \E i, j \in Calls :
        /\ Overlap(i, j)
        /\ completed[i].op = "ensureStore"
        /\ completed[j].op = "ensureStore"
        /\ completed[i].displayName = completed[j].displayName
        /\ ~completed[i].startHad /\ ~completed[j].startHad
        /\ completed[i].status = "returned"
        /\ completed[j].status = "returned"
        /\ completed[i].store[1].name # completed[j].store[1].name
        /\ NumHolding(stores, completed[i].displayName) = 2

NoMatchListed(p) ==
    \A k \in 1..Len(listed[p]) : listed[p][k].displayName # Some(arg[p])

\* C9, in every state: a call that has issued a create request is an
\* ensureStore or ensure_store call whose scan found no store with the
\* requested display name; a call that returned from its scan issued no
\* create request, added nothing, and returned the matched store as listed.
C9_State ==
    \A p \in Procs :
        /\ requests[p] > 0 =>
            /\ op[p] \in {"ensureStore", "ensure_store"}
            /\ found[p] = None
            /\ NoMatchListed(p)
        /\ (pc[p] = "returned" /\ (found[p] # None \/ op[p] = "findStoreByDisplayName")) =>
            /\ requests[p] = 0
            /\ appended[p] = 0
            /\ result[p].store = found[p]
            /\ found[p] # None =>
                \E k \in 1..Len(listed[p]) :
                    /\ listed[p][k].displayName = Some(arg[p])
                    /\ found[p][1].name = listed[p][k].name
                    /\ found[p][1].displayName = listed[p][k].displayName

\* C9, in every step: the backend's stores change only when the pending
\* create request of an ensureStore or ensure_store call takes effect.
C9_Step ==
    stores' # stores =>
        \E p \in Procs :
            /\ pc[p] = "create" /\ pc'[p] # "create"
            /\ op[p] \in {"ensureStore", "ensure_store"}
            /\ found[p] = None
            /\ NoMatchListed(p)

\* C9: store-create requests come only from ensureStore and ensure_store,
\* and only after a scan without a match; findStoreByDisplayName, and
\* ensureStore on a match, leave the backend's stores as they are and return
\* the match as listed.
C9_CreateOnlyAfterEmptyScan == []C9_State /\ [][C9_Step]_vars

\* The case of C9: an ensureStore call found a match and returned it while
\* another call, whose scan was empty, has its create request pending.
C9_Witness ==
    \E p, q \in Procs :
        /\ pc[p] = "returned" /\ op[p] = "ensureStore" /\ found[p] # None
        /\ pc[q] = "create" /\ requests[q] = 1

\* C10: the store returned is the first of the listed stores whose display
\* name equals the requested one exactly; when no listed store has exactly
\* that display name, none is returned.
C10_FirstExactMatch ==
    \A p \in Procs :
        pc[p] \in {"returned", "create"} =>
            IF found[p] = None
            THEN NoMatchListed(p)
            ELSE \E k \in 1..Len(listed[p]) :
                    /\ listed[p][k] = found[p][1]
                    /\ listed[p][k].displayName = Some(arg[p])
                    /\ \A m \in 1..(k - 1) : listed[p][m].displayName # Some(arg[p])
                    /\ pc[p] = "returned" /\ result[p].store = found[p]

\* The case of C10: two listed stores carry the requested display name and
\* the first of them, which is not the last, was returned.
C10_Witness ==
    \E p \in Procs :
        /\ pc[p] = "returned"
        /\ found[p] # None
        /\ \E k, m \in 1..Len(listed[p]) :
            /\ k < m
            /\ listed[p][k].displayName = Some(arg[p])
            /\ listed[p][m].displayName = Some(arg[p])
            /\ listed[p][k].name # listed[p][m].name
            /\ found[p][1] = listed[p][k]

(***************************************************************************)
(* Properties of the operation poller, checked under SpecPoll.             *)
(***************************************************************************)
Called(p) == operation[p] # None

Ended(p) == wpc[p] \in {"returned", "threw"}

LastEvent(p) == trace[p][Len(trace[p])].e

\* Once the call of p has ended it does nothing more.
StaysEnded(p) ==
    Ended(p) => /\ wpc'[p] = wpc[p]
                /\ trace'[p] = trace[p]
                /\ outcome'[p] = outcome[p]

\* C4: a call whose operation argument has done = true and no error
\* returns that operation, having started no timer and issued no
\* operations.get request.
C4_DoneReturnsAtOnce ==
    \A p \in Procs :
        (/\ Called(p)
         /\ operation[p][1].done = Some(TRUE)
         /\ operation[p][1].error = None)
        => /\ wpc[p] = "returned"
           /\ outcome[p] = Some([operation |-> operation[p], message |-> ""])
           /\ trace[p] = <<Event("check", 0)>>
           /\ Sleeps(p) = 0
           /\ Gets(p) = 0
           /\ received[p] = None

\* The case of C4: a call was given a finished operation without error
\* while the other caller is still polling.
C4_Witness ==
    \E p, q \in Procs :
        /\ Called(p)
        /\ operation[p][1].done = Some(TRUE)
        /\ operation[p][1].error = None
        /\ wpc[p] = "returned"
        /\ wpc[q] = "getting"

\* C5, in every state: a call whose current snapshot, the first or a
\* refreshed one, has done = true and an error has thrown at the check of
\* that snapshot, with the error's message, or with the JSON text of the
\* error when it has no message field.
C5_State ==
    \A p \in Procs :
        (/\ Called(p)
         /\ current[p][1].done = Some(TRUE)
         /\ current[p][1].error # None)
        => LET e == current[p][1].error[1]
           IN  /\ wpc[p] = "threw"
               /\ outcome[p] # None
               /\ outcome[p][1].operation = None
               /\ e.message # None => outcome[p][1].message = e.message[1]
               /\ e.message = None => outcome[p][1].message = JSONStringify(e)
               /\ LastEvent(p) = "check"
               /\ received[p] \in {None, current[p]}

\* C5: a snapshot with done = true and an error makes the poller throw the
\* error's message (or the JSON text of the error) at that observation, and
\* the poller never polls after it.
C5_FailsOnDoneWithError ==
    []C5_State /\ [][\A p \in Procs : StaysEnded(p)]_vars

\* The case of C5: a refreshed snapshot carried an error without a message
\* field, and the call threw the JSON text of that error.
C5_Witness ==
    \E p \in Procs :
        /\ Gets(p) >= 1
        /\ wpc[p] = "threw"
        /\ current[p][1].done = Some(TRUE)
        /\ current[p][1].error = Some([message |-> None, code |-> Some(13)])
        /\ outcome[p][1].message = "{\"code\":13}"

\* C6: every operations.get request comes right after a sleep of the poll
\* interval, every sleep right after a check that found the snapshot not
\* done, and every check but the first right after a get: the events run
\* check, sleep, get, check, ..., and a call that made k requests slept k
\* times.
C6_SleepBeforeEveryGet ==
    \A p \in Procs :
        /\ \A i \in 1..Len(trace[p]) :
            /\ trace[p][i].e = "get" =>
                i > 1 /\ trace[p][i - 1] = Event("sleep", PollIntervalMs)
            /\ trace[p][i].e = "sleep" =>
                i > 1 /\ trace[p][i - 1].e = "check"
            /\ trace[p][i].e = "check" =>
                i = 1 \/ trace[p][i - 1].e = "get"
        /\ wpc[p] = "sleeping" =>
            /\ current[p][1].done # Some(TRUE)
            /\ LastEvent(p) = "sleep"
            /\ Sleeps(p) = Gets(p) + 1
        /\ wpc[p] \in {"getting", "returned", "threw"} => Sleeps(p) = Gets(p)

\* The case of C6: a call that refreshed its snapshot twice has ended.
C6_Witness ==
    \E p \in Procs :
        /\ Ended(p)
        /\ Gets(p) = 2
        /\ Sleeps(p) = 2

NotAnObject(v) == v.isNull \/ v.typeof \in {"undefined", "number", "string", "boolean"}

\* C7, in every state: a call whose last refresh was null or a primitive
\* has thrown the invalid-state error at that step, without taking the
\* value as its current snapshot and without a further check or sleep.
C7_State ==
    \A p \in Procs :
        (received[p] # None /\ NotAnObject(received[p][1]))
        => /\ wpc[p] = "threw"
           /\ outcome[p] =
                Some([operation |-> None,
                      message |-> "Invalid operation state received while polling"])
           /\ current[p] # received[p]
           /\ LastEvent(p) = "get"

\* C7: a refresh that is null or a primitive makes the poller throw and
\* stop: no sleep and no operations.get request follows.
C7_MalformedRefreshThrows ==
    []C7_State /\ [][\A p \in Procs : received'[p] # received[p] => StaysEnded(p)]_vars

\* The case of C7: the second refresh of a call was null.
C7_Witness ==
    \E p \in Procs :
        /\ received[p] = Some(Null)
        /\ Gets(p) = 2
        /\ wpc[p] = "threw"

\* The value the poller looked at last: its argument or the last refresh.
LastSeen(p) == IF received[p] = None THEN operation[p][1] ELSE received[p][1]

\* C8: the call ends only on a snapshot with done = true, on a refresh
\* that is no object, or when a request fails: while every snapshot is an
\* object whose done is not true it goes on, however many refreshes it has
\* made, and the next request is never refused.
C8_NoRetryLimit ==
    \A p \in Procs :
        /\ (Called(p) /\ Ended(p)) =>
            \/ LastSeen(p).done = Some(TRUE)
            \/ NotAnObject(LastSeen(p))
            \/ outcome[p] = Some([operation |-> None,
                                  message |-> "operation get request failed"])
        /\ (wpc[p] = "sleeping" /\ Gets(p) < MaxPolls) => ENABLED TimerFires(p)

\* The case of C8: a call has made as many refreshes as the model allows
\* and is still waiting.
C8_Witness ==
    \E p \in Procs :
        /\ Gets(p) >= MaxPolls
        /\ wpc[p] = "sleeping"

(***************************************************************************)
(* Backends that hold more stores than one page of the list.               *)
(***************************************************************************)
MaxPageOverflow == 2    \* stores a backend holds beyond full pages

\* A backend of n stores: the m1-th carries "docs" and the m2-th "Docs"
\* (0 for none), every other store has no display name.
PagedBackend(n, m1, m2) ==
    [i \in 1..n |->
        BackendStore(i, TRUE, IF i = m1 THEN Some("docs")
                              ELSE IF i = m2 THEN Some("Docs")
                              ELSE None)]

\* Backends of two and of three pages, the match absent, first, last of
\* the first page, first of the second page, or last of all.
InitPagedBackends ==
    { PagedBackend(n, m1, m2) :
        n \in { DefaultPageSize + k : k \in 1..MaxPageOverflow }
              \cup { 2 * DefaultPageSize + 1 },
        m1 \in {0, 1, DefaultPageSize, DefaultPageSize + 1, 2 * DefaultPageSize + 1},
        m2 \in {0, DefaultPageSize + 1} }

InitPaged ==
    stores \in InitPagedBackends /\ StoreIdle /\ PollIdle /\ IngestIdle /\ PureIdle

\* The store resolver against backends of several pages.
SpecPaged == InitPaged /\ [][NextStore]_vars

\* The positions of the stores of the backend that carry display name d.
Matches(backend, d) == { k \in 1..Len(backend) : backend[k].displayName = Some(d) }

\* C11: an ensureStore(d) call made while the backend holds a store with
\* display name d, on whichever page of the list, sends no create request
\* and adds no store; when it returns, it returns a store of the backend
\* that carries d. (It returns nothing only when the list request fails.)
C11_EnsureStoreScansAllPages ==
    /\ \A p \in Procs :
        (op[p] \in {"ensureStore", "ensure_store"} /\ startHad[p]) => pc[p] # "create"
    /\ \A i \in Calls :
        (completed[i].op \in {"ensureStore", "ensure_store"} /\ completed[i].startHad)
        => /\ completed[i].requests = 0
           /\ completed[i].appended = 0
           /\ completed[i].status = "threw" =>
                completed[i].store = None
           /\ completed[i].status = "returned" =>
                /\ completed[i].store # None
                /\ \E k \in Matches(stores, completed[i].displayName) :
                      completed[i].store[1] = ToFileSearchStore(stores[k])

\* The case of C11: ensureStore returned a store whose display name no
\* store of the first page carries.
C11_Witness ==
    \E i \in Calls :
        /\ completed[i].op = "ensureStore"
        /\ completed[i].status = "returned"
        /\ completed[i].startHad
        /\ Len(stores) > 2 * DefaultPageSize
        /\ \A k \in Matches(stores, completed[i].displayName) : k > 2 * DefaultPageSize

(***************************************************************************)
(* listStores and the list_stores tool, applied to one backend.            *)
(***************************************************************************)
MaxPageSize == 3        \* the largest page size a caller asks for

exceptPure == <<pc, op, arg, listed, found, result, requests, appended,
                startLen, startSeq, startHad, completed, pollVars, ingestVars,
                queryVars, registryVars, input>>

\* a ?? d
Coalesce(a, d) == IF a = None THEN d ELSE a[1]

\* The page sizes a caller passes: none, or a positive integer.
PageSizes == {None} \cup { Some(k) : k \in 1..MaxPageSize }

ListInputs == [fn : {"listStores", "list_stores"}, pageSize : PageSizes]

InitList ==
    /\ stores \in InitBackends \cup InitPagedBackends
    /\ input \in { Some(x) : x \in ListInputs }
    /\ output = None
    /\ StoreIdle /\ PollIdle /\ IngestIdle /\ QueryIdle /\ RegistryIdle

\* GeminiClient.listStores(config) returns the array it has filled.
ListStoresCall ==
    /\ input # None /\ output = None
    /\ input[1].fn = "listStores"
    /\ output' = Some([stores |->
            ListStores(stores, Coalesce(input[1].pageSize, DefaultPageSize))])
    /\ UNCHANGED <<stores, exceptPure>>

\* ListStoresTool.execute(args): listStores({ pageSize: args.pageSize ?? 20 })
\* wrapped in the tool's response.
ListStoresToolExecute ==
    /\ input # None /\ output = None
    /\ input[1].fn = "list_stores"
    /\ LET list == ListStores(stores,
                    Coalesce(Some(Coalesce(input[1].pageSize, 20)), DefaultPageSize))
       IN  output' = Some([success |-> TRUE,
                           message |-> "Found " \o ToString(Len(list))
                                         \o " FileSearchStore(s)",
                           data |-> [stores |-> list, total |-> Len(list)]])
    /\ UNCHANGED <<stores, exceptPure>>

\* A list request is rejected: the rejection leaves either function.
ListRequestFails ==
    /\ input # None /\ output = None
    /\ output' = Some([threw |-> "list request failed"])
    /\ UNCHANGED <<stores, exceptPure>>

NextList == ListStoresCall \/ ListStoresToolExecute \/ ListRequestFails

SpecList == InitList /\ [][NextList]_vars

\* The stores a finished listing handed back.
Listed == IF "data" \in DOMAIN output[1] THEN output[1].data.stores
          ELSE output[1].stores

HasListed == output # None /\ "threw" \notin DOMAIN output[1]

\* The page size of the requests of the listing.
RequestedPageSize == Coalesce(input[1].pageSize, DefaultPageSize)

\* C12 as the specification states it: the listing holds the stores of the
\* first page only, at most pageSize of them.
C12_FirstPageOnly ==
    HasListed =>
        /\ Len(Listed) <= RequestedPageSize
        /\ Listed = ListFirstPage(stores, RequestedPageSize)

\* C12: listStores(pageSize), and the list_stores tool with it, return the
\* stores of every page of the listing in backend order, one entry for each
\* store of the backend; pageSize, 20 when none is given, is the size of
\* the pages requested and no limit on the result.
C12_ListsEveryPage ==
    HasListed =>
        /\ Len(Listed) = Len(stores)
        /\ \A i \in 1..Len(stores) : Listed[i] = ToFileSearchStore(stores[i])
        /\ "data" \in DOMAIN output[1] => output[1].data.total = Len(stores)

\* The case of C12: a listing of a backend that holds more stores than one
\* page of the size asked for, and of one that holds more than a default page.
C12_Witness ==
    /\ HasListed
    /\ input[1].pageSize # None
    /\ Len(stores) > 2 * RequestedPageSize
    /\ Len(Listed) > 2 * RequestedPageSize

(***************************************************************************)
(* Ingestion: uploadFile and uploadContent, which submit one upload        *)
(* request through uploadBlob and poll its operation to the end.           *)
(***************************************************************************)
exceptIngest == <<storeVars, queryVars, registryVars, pureVars>>

\* The `response` of an operation: absent, without a documentName, or with
\* one, which may be the empty string.
Responses ==
    {None, Some([documentName |-> None]),
     Some([documentName |-> Some("fileSearchStores/1/documents/d1")]),
     Some([documentName |-> Some("")])}

\* The operation object o with the response r added to it.
WithResponse(o, r) ==
    [typeof |-> o.typeof, isNull |-> o.isNull, done |-> o.done,
     error |-> o.error, response |-> r]

\* The snapshots of an upload operation: unfinished, finished with each
\* response, and failed, once with a response next to the error.
IngestOperations ==
    { WithResponse(OperationObject(Some(FALSE), None), None),
      WithResponse(OperationObject(Some(TRUE), Some([message |-> Some("quota exceeded"),
                                                      code |-> Some(8)])), None),
      WithResponse(OperationObject(Some(TRUE), Some([message |-> None, code |-> Some(13)])),
                   Some([documentName |-> Some("fileSearchStores/1/documents/d1")])) }
    \cup { WithResponse(OperationObject(Some(TRUE), None), r) : r \in Responses }

\* What operations.get may resolve to while an upload is polled.
IngestRefreshes == IngestOperations \cup {Null, Primitive("undefined")}

\* The values randomUUID() may produce.
UUIDs == {"1b4e28ba-2fa1-41d2-883f-0016d3cca427", "6fa459ea-ee8a-4ca4-894e-db77e160355e"}

\* A custom metadata entry as the tools hand it to the client.
Metadata == <<[key |-> "lang", stringValue |-> "en"]>>

\* The arguments of uploadFile calls.
FileArgs ==
    [fn : {"uploadFile"}, storeName : {"fileSearchStores/1"},
     filePath : {"/docs/guide.md", "/docs/missing"},
     content : {""},
     mimeType : {"text/markdown"}, displayName : {"guide.md"},
     metadata : {None}]

\* The arguments of uploadContent calls, which have no MIME type.
ContentArg(content, displayName, metadata) ==
    [fn |-> "uploadContent", storeName |-> "fileSearchStores/1", filePath |-> "",
     content |-> content, mimeType |-> "", displayName |-> displayName,
     metadata |-> metadata]

ContentArgs ==
    {ContentArg("hello world", "greeting.txt", None),
     ContentArg("<html><body>hi</body></html>", "page.html", Some(Metadata))}

\* A guess of the type from the text, which the code does not make.
ContentMimeTypeSniffed(content) ==
    IF Len(content) > 0 /\ SubSeq(content, 1, 1) = "<" THEN "text/html" ELSE "text/plain"

\* mimeType: "text/plain", and new Blob([contentBytes], { type: "text/plain" })
ContentMimeType(content) == "text/plain"

\* The request uploadBlob sends: uploadToFileSearchStore({ fileSearchStoreName,
\* file: blob, config: { mimeType, displayName, customMetadata? } }).
UploadRequest(p, a, mimeType) ==
    [by |-> p, fn |-> a.fn, fileSearchStoreName |-> a.storeName,
     blobType |-> mimeType, mimeType |-> mimeType,
     displayName |-> a.displayName, customMetadata |-> a.metadata]

\* The error readFile rejects with: a system error that carries the path.
ReadFileError(path) ==
    [code |-> "ENOENT", path |-> path,
     message |-> "ENOENT: no such file or directory, open '" \o path \o "'"]

UploadReturned(documentName) == [documentName |-> Some(documentName), message |-> ""]
UploadThrew(message) == [documentName |-> None, message |-> message]

\* result.response?.documentName ?? randomUUID()
DocumentNameOf(finished, uuid) ==
    IF finished.response = None THEN uuid
    ELSE Coalesce(finished.response[1].documentName, uuid)

\* An uploadBlob that answers a failed operation with a synthesized name.
UploadBlobResultSwallows(out, uuid) ==
    IF out.operation = None THEN UploadReturned(uuid)
    ELSE UploadReturned(DocumentNameOf(out.operation[1], uuid))

\* How uploadBlob ends once waitForOperationDone has: a throw goes through
\* the await unchanged, a finished operation gives { documentName }.
UploadBlobResult(out, uuid) ==
    IF out.operation = None THEN UploadThrew(out.message)
    ELSE UploadReturned(DocumentNameOf(out.operation[1], uuid))

\* An uploadFile that goes on to uploadBlob whether the read failed or not.
UploadsAfterReadAlways(p, a, rejected) == <<UploadRequest(p, a, a.mimeType)>>

\* The upload requests uploadFile sends once readFile has settled: none
\* when it rejected, since the await throws before uploadBlob is called.
UploadsAfterRead(p, a, rejected) ==
    IF rejected THEN <<>> ELSE <<UploadRequest(p, a, a.mimeType)>>

UploadStart(p, a) ==
    /\ upc[p] = "idle"
    /\ ucall' = [ucall EXCEPT ![p] = Some(a)]
    /\ UNCHANGED uresult

\* uploadFile(args) is called: it awaits readFile(args.filePath).
UploadFile(p, a) ==
    /\ UploadStart(p, a)
    /\ upc' = [upc EXCEPT ![p] = "reading"]
    /\ UNCHANGED uploads
    /\ UNCHANGED <<pollVars, exceptIngest>>

\* readFile rejects: the rejection leaves uploadFile.
ReadFileThrows(p) ==
    /\ upc[p] = "reading"
    /\ upc' = [upc EXCEPT ![p] = "threw"]
    /\ uresult' = [uresult EXCEPT ![p] =
            Some(UploadThrew(ReadFileError(ucall[p][1].filePath).message))]
    /\ uploads' = uploads \o UploadsAfterRead(p, ucall[p][1], TRUE)
    /\ UNCHANGED ucall
    /\ UNCHANGED <<pollVars, exceptIngest>>

\* readFile resolves: uploadFile builds the blob and calls uploadBlob, which
\* sends the upload request with the MIME type it was given.
ReadFileReturns(p) ==
    /\ upc[p] = "reading"
    /\ upc' = [upc EXCEPT ![p] = "submitting"]
    /\ uploads' = uploads \o UploadsAfterRead(p, ucall[p][1], FALSE)
    /\ UNCHANGED <<ucall, uresult>>
    /\ UNCHANGED <<pollVars, exceptIngest>>

\* uploadContent(args) is called: it encodes the text and calls uploadBlob,
\* which sends the upload request.
UploadContent(p, a) ==
    /\ UploadStart(p, a)
    /\ upc' = [upc EXCEPT ![p] = "submitting"]
    /\ uploads' = Append(uploads, UploadRequest(p, a, ContentMimeType(a.content)))
    /\ UNCHANGED <<pollVars, exceptIngest>>

\* uploadToFileSearchStore rejects: the rejection leaves the call.
UploadRequestThrows(p) ==
    /\ upc[p] = "submitting"
    /\ upc' = [upc EXCEPT ![p] = "threw"]
    /\ uresult' = [uresult EXCEPT ![p] = Some(UploadThrew("upload request failed"))]
    /\ UNCHANGED <<ucall, uploads>>
    /\ UNCHANGED <<pollVars, exceptIngest>>

\* uploadToFileSearchStore resolves to the operation o, and uploadBlob calls
\* waitForOperationDone(o, 5000).
UploadRequestReturns(p, o) ==
    /\ upc[p] = "submitting"
    /\ upc' = [upc EXCEPT ![p] = "polling"]
    /\ PollStart(p, o)
    /\ UNCHANGED <<ucall, uresult, uploads>>
    /\ UNCHANGED exceptIngest

\* An uploadBlob that reads the outcome from a place shared by all calls: the
\* outcome of whichever poller has ended.
AwaitedShared(p) == outcome[CHOOSE q \in Procs : outcome[q] # None][1]

\* const finished = await this.waitForOperationDone(operation, 5000): the
\* outcome of the poller this call started, held in a local of the call.
Awaited(p) == outcome[p][1]

\* waitForOperationDone has ended and uploadBlob resumes after its await:
\* it rethrows, or returns the document name.
UploadBlobResumes(p) ==
    /\ upc[p] = "polling"
    /\ wpc[p] \in {"returned", "threw"}
    /\ \E uuid \in UUIDs :
        LET r == UploadBlobResult(Awaited(p), uuid)
        IN  /\ uresult' = [uresult EXCEPT ![p] = Some(r)]
            /\ upc' = [upc EXCEPT ![p] = IF r.documentName = None THEN "threw"
                                         ELSE "returned"]
    /\ UNCHANGED <<ucall, uploads>>
    /\ UNCHANGED <<pollVars, exceptIngest>>

NextIngest ==
    \E p \in Procs :
        \/ \E a \in FileArgs : UploadFile(p, a)
        \/ ReadFileThrows(p)
        \/ ReadFileReturns(p)
        \/ \E a \in ContentArgs : UploadContent(p, a)
        \/ UploadRequestThrows(p)
        \/ \E o \in IngestOperations : UploadRequestReturns(p, o)
        \/ TimerFires(p)
        \/ GetThrows(p)
        \/ \E next \in IngestRefreshes : GetReturns(p, next)
        \/ UploadBlobResumes(p)

InitIngest == stores = <<>> /\ StoreIdle /\ PollIdle /\ IngestIdle /\ PureIdle

\* The ingestion pipeline, with concurrent callers.
SpecIngest == InitIngest /\ [][NextIngest]_vars

(***************************************************************************)
(* Properties of the ingestion pipeline, checked under SpecIngest.         *)
(***************************************************************************)
UploadEnded(p) == upc[p] \in {"returned", "threw"}

\* The upload requests sent on behalf of the call of p.
UploadsBy(p) == { i \in 1..Len(uploads) : uploads[i].by = p }

\* The operation waitForOperationDone returned to the call of p.
Finished(p) == outcome[p][1].operation[1]

HasDocumentName(o) == o.response # None /\ o.response[1].documentName # None

\* C13: a call whose operation ended with done = true and no error has
\* returned a documentName that is not empty: the one of the operation's
\* response when it has one, otherwise an identifier made locally.
C13_NonEmptyDocumentName ==
    \A p \in Procs :
        (UploadEnded(p) /\ wpc[p] = "returned")
        => /\ upc[p] = "returned"
           /\ uresult[p][1].documentName # None
           /\ uresult[p][1].documentName[1] # ""
           /\ IF HasDocumentName(Finished(p))
              THEN uresult[p][1].documentName = Finished(p).response[1].documentName
              ELSE uresult[p][1].documentName[1] \in UUIDs

\* C14: a call whose operation failed while it was polled (a snapshot with
\* done = true and an error, a refresh that is no object, or a rejected
\* refresh request) has thrown the error of the poller, message unchanged,
\* and returned no documentName; it has sent its upload request once only.
C14_OperationFailurePropagates ==
    \A p \in Procs :
        /\ (UploadEnded(p) /\ wpc[p] = "threw")
            => /\ upc[p] = "threw"
               /\ uresult[p] = Some(UploadThrew(outcome[p][1].message))
               /\ uresult[p][1].documentName = None
        /\ wpc[p] = "threw" => Cardinality(UploadsBy(p)) = 1

\* The case of C14: one call has failed on an operation that ended with an
\* error next to a response, another on a refresh that was no object.
C14_Witness ==
    \E p, q \in Procs :
        /\ upc[p] = "threw" /\ wpc[p] = "threw"
        /\ current[p][1].done = Some(TRUE)
        /\ current[p][1].error # None
        /\ HasDocumentName(current[p][1])
        /\ upc[q] = "threw" /\ wpc[q] = "threw"
        /\ received[q] = Some(Null)

\* Whether the text t occurs in the text s.
Contains(s, t) ==
    \E i \in 1..Len(s) : i + Len(t) - 1 <= Len(s) /\ SubSeq(s, i, i + Len(t) - 1) = t

\* C15, in every state: an uploadFile call that has thrown without having
\* sent an upload request has started no poller, and the message of its
\* error names the path of the file.
C15_State ==
    \A p \in Procs :
        (upc[p] = "threw" /\ UploadsBy(p) = {})
        => /\ ucall[p][1].fn = "uploadFile"
           /\ wpc[p] = "idle" /\ trace[p] = <<>> /\ operation[p] = None
           /\ uresult[p][1].documentName = None
           /\ Contains(uresult[p][1].message, ucall[p][1].filePath)

\* C15, in every step: when the readFile of a call fails, the call ends with
\* the error of readFile and the step sends no upload request.
C15_Step ==
    \A p \in Procs :
        (upc[p] = "reading" /\ ReadFileThrows(p))
        => /\ upc'[p] = "threw"
           /\ uresult'[p] = Some(UploadThrew(ReadFileError(ucall[p][1].filePath).message))
           /\ uploads' = uploads
           /\ UploadsBy(p) = {}

C17_ContentIsTextPlain ==
    \A i \in 1..Len(uploads) :
        uploads[i].fn = "uploadContent"
        => /\ uploads[i].mimeType = "text/plain"
           /\ uploads[i].blobType = "text/plain"

\* The case of C17: two uploadContent calls have sent their requests, one
\* for plain words without metadata, one for HTML text with metadata.
C17_Witness ==
    \E p, q \in Procs :
        /\ UploadsBy(p) # {} /\ UploadsBy(q) # {}
        /\ ucall[p] = Some(ContentArg("hello world", "greeting.txt", None))
        /\ ucall[q] = Some(ContentArg("<html><body>hi</body></html>", "page.html",
                                      Some(Metadata)))
        /\ \E i \in UploadsBy(q) : uploads[i].customMetadata = Some(Metadata)

(***************************************************************************)
(* The MIME type the upload_file tool sends for a file.                    *)
(***************************************************************************)
\* A JavaScript value: a string, or something else known by its typeof.
Str(s) == [typeof |-> "string", value |-> s]
FunctionObject == [typeof |-> "function", value |-> "Object"]
ObjectPrototype == [typeof |-> "object", value |-> "Object.prototype"]

UpperCase == "ABCDEFGHIJKLMNOPQRSTUVWXYZ"
LowerCase == "abcdefghijklmnopqrstuvwxyz"

CharAt(s, i) == SubSeq(s, i, i)

LowerChar(c) ==
    IF \E i \in 1..Len(UpperCase) : CharAt(UpperCase, i) = c
    THEN CharAt(LowerCase, CHOOSE i \in 1..Len(UpperCase) : CharAt(UpperCase, i) = c)
    ELSE c

RECURSIVE ToLowerCase(_)
\* String.prototype.toLowerCase
ToLowerCase(s) ==
    IF Len(s) = 0 THEN "" ELSE LowerChar(CharAt(s, 1)) \o ToLowerCase(SubSeq(s, 2, Len(s)))

\* filePath.split(".").pop(): the text after the last dot, the whole path
\* when it has no dot.
SplitPop(filePath) ==
    LET dots == { i \in 1..Len(filePath) : CharAt(filePath, i) = "." }
    IN  IF dots = {} THEN filePath
        ELSE SubSeq(filePath, (CHOOSE i \in dots : \A j \in dots : j <= i) + 1,
                    Len(filePath))

\* The entries of the object literal mimeTypes.
MimeTypes ==
    << <<"pdf", "application/pdf">>, <<"txt", "text/plain">>,
       <<"md", "text/markdown">>, <<"html", "text/html">>,
       <<"json", "application/json">>, <<"xml", "application/xml">>,
       <<"csv", "text/csv">>, <<"doc", "application/msword">>,
       <<"docx", "application/vnd.openxmlformats-officedocument.wordprocessingml.document">>,
       <<"xls", "application/vnd.ms-excel">>,
       <<"xlsx", "application/vnd.openxmlformats-officedocument.spreadsheetml.sheet">>,
       <<"ppt", "application/vnd.ms-powerpoint">>,
       <<"pptx", "application/vnd.openxmlformats-officedocument.presentationml.presentation">> >>

InTable(ext) == \E i \in 1..Len(MimeTypes) : MimeTypes[i][1] = ext

TableEntry(ext) == MimeTypes[CHOOSE i \in 1..Len(MimeTypes) : MimeTypes[i][1] = ext][2]

\* mimeTypes[ext]: a property read on an object literal finds the entries
\* of the literal and, failing those, what Object.prototype provides.
PropertyGet(ext) ==
    IF InTable(ext) THEN Some(Str(TableEntry(ext)))
    ELSE IF ext = "constructor" THEN Some(FunctionObject)
    ELSE IF ext = "__proto__" THEN Some(ObjectPrototype)
    ELSE IF ext \in {"toString", "valueOf", "hasOwnProperty", "isPrototypeOf",
                     "propertyIsEnumerable", "toLocaleString"}
         THEN Some([typeof |-> "function", value |-> ext])
    ELSE None

\* return mimeTypes[ext] ?? "application/octet-stream"
GetMimeTypeFromExtension(ext) == Coalesce(PropertyGet(ext), Str("application/octet-stream"))

\* !mimeType: true of undefined and of the empty string.
IsFalsy(mimeType) == mimeType = None \/ mimeType = Some("")

\* let mimeType = args.mimeType; if (!mimeType) { ... }: the MIME type
\* UploadFileTool.execute passes to uploadFile.
MimeTypeOf(args) ==
    IF IsFalsy(args.mimeType)
    THEN GetMimeTypeFromExtension(ToLowerCase(SplitPop(args.filePath)))
    ELSE Str(args.mimeType[1])

\* File names: with the extensions of the table, in other letter cases, with
\* unknown extensions, with names Object.prototype knows, with a trailing
\* dot, with two dots, and without any dot.
Extensions ==
    { MimeTypes[i][1] : i \in 1..Len(MimeTypes) }
    \cup {"MD", "Pdf", "xyz", "constructor", "__proto__", "toString", "", "tar.gz"}

FilePaths ==
    { "/docs/guide." \o e : e \in Extensions } \cup {"/docs/README", "/docs.d/md", "md"}

MimeInputs ==
    [filePath : FilePaths,
     mimeType : {None, Some(""), Some("text/x-custom"), Some("application/pdf")}]

InitMime ==
    /\ input \in { Some(x) : x \in MimeInputs }
    /\ output = None
    /\ stores = <<>> /\ StoreIdle /\ PollIdle /\ IngestIdle /\ QueryIdle /\ RegistryIdle

\* UploadFileTool.execute settles the MIME type of the upload.
UploadFileToolMimeType ==
    /\ input # None /\ output = None
    /\ output' = Some(MimeTypeOf(input[1]))
    /\ UNCHANGED <<stores, exceptPure>>

SpecMime == InitMime /\ [][UploadFileToolMimeType]_vars

\* C16: a MIME type the caller supplies is the one sent; when none is
\* supplied, the one sent is the entry of the table for the extension of
\* the file, and application/octet-stream when the table has no entry.
C16_MimeTypeSent ==
    output # None =>
        LET a   == input[1]
            ext == ToLowerCase(SplitPop(a.filePath))
        IN  IF a.mimeType # None THEN output[1] = Str(a.mimeType[1])
            ELSE IF InTable(ext) THEN output[1] = Str(TableEntry(ext))
            ELSE output[1] = Str("application/octet-stream")

(***************************************************************************)
(* queryStore: one generateContent request, and the extraction of the      *)
(* text and the citations from its response.                               *)
(***************************************************************************)
TextPart(t) == [text |-> t]
WebChunk(u) == [web |-> Some([uri |-> u])]
NoWebChunk == [web |-> None]

\* The parts lists of a candidate's content: empty, one text, texts around
\* a part without text, an empty text, and two texts in the other order.
PartLists ==
    { <<>>,
      <<TextPart(Some("Paris"))>>,
      <<TextPart(Some("The capital ")), TextPart(None), TextPart(Some("is Paris."))>>,
      <<TextPart(Some("is Paris.")), TextPart(Some("")), TextPart(Some("The capital "))>> }

\* The grounding chunks of a candidate: none, chunks without a web source
\* or without a URI between chunks that have one, and a URI cited twice.
ChunkLists ==
    { <<>>,
      <<NoWebChunk>>,
      <<WebChunk(Some("https://a.example/1"))>>,
      <<NoWebChunk, WebChunk(Some("https://a.example/1"))>>,
      <<WebChunk(Some("https://b.example/2")), WebChunk(None),
        WebChunk(Some("https://a.example/1")), WebChunk(Some("https://b.example/2"))>>,
      <<WebChunk(Some("https://a.example/1")), WebChunk(Some("https://b.example/2"))>> }

Contents ==
    {None, Some([parts |-> None])} \cup { Some([parts |-> Some(ps)]) : ps \in PartLists }

GroundingMetadatas ==
    {None, Some([groundingChunks |-> None])}
    \cup { Some([groundingChunks |-> Some(cs)]) : cs \in ChunkLists }

Candidates == [content : Contents, groundingMetadata : GroundingMetadatas]

\* Candidates that follow the first one in a response.
OtherCandidates ==
    { [content |-> Some([parts |-> Some(<<TextPart(Some("Lyon"))>>)]),
       groundingMetadata |->
           Some([groundingChunks |-> Some(<<WebChunk(Some("https://c.example/3"))>>)])],
      [content |-> None, groundingMetadata |-> None] }

\* What generateContent may resolve to.
QueryResponses ==
    { [candidates |-> None], [candidates |-> Some(<<>>)] }
    \cup { [candidates |-> Some(<<c>>)] : c \in Candidates }
    \cup { [candidates |-> Some(<<c, d>>)] : c \in Candidates, d \in OtherCandidates }

\* resp.candidates?.[0]
FirstCandidate(resp) ==
    IF resp.candidates = None \/ Len(resp.candidates[1]) = 0 THEN None
    ELSE Some(resp.candidates[1][1])

\* resp.candidates?.[0]?.content?.parts
PartsOf(resp) ==
    LET c == FirstCandidate(resp)
    IN  IF c = None \/ c[1].content = None THEN None ELSE c[1].content[1].parts

\* resp.candidates?.[0]?.groundingMetadata?.groundingChunks
ChunksOf(resp) ==
    LET c == FirstCandidate(resp)
    IN  IF c = None \/ c[1].groundingMetadata = None THEN None
        ELSE c[1].groundingMetadata[1].groundingChunks

RECURSIVE Join(_)
\* Array.prototype.join("") on an array of strings
Join(texts) == IF texts = <<>> THEN "" ELSE Head(texts) \o Join(Tail(texts))

\* parts.map((part) => part.text ?? "")
PartTexts(parts) == [i \in 1..Len(parts) |-> Coalesce(parts[i].text, "")]

\* An extraction without the optional chaining: reading a property of a
\* missing level throws.
ExtractResponseTextStrict(resp) ==
    IF PartsOf(resp) = None
    THEN [threw |-> "TypeError: Cannot read properties of undefined"]
    ELSE [text |-> Join(PartTexts(PartsOf(resp)[1]))]

\* An extraction that joins the parts of every candidate.
ExtractResponseTextAllCandidates(resp) ==
    LET cs == IF resp.candidates = None THEN <<>> ELSE resp.candidates[1]
        t(c) == IF c.content = None \/ c.content[1].parts = None THEN ""
                ELSE Join(PartTexts(c.content[1].parts[1]))
    IN  [text |-> Join([i \in 1..Len(cs) |-> t(cs[i])])]

\* extractResponseText(response)
ExtractResponseText(resp) ==
    IF PartsOf(resp) = None THEN [text |-> ""]
    ELSE [text |-> Join(PartTexts(PartsOf(resp)[1]))]

\* chunk.web?.uri
UriOf(chunk) == IF chunk.web = None THEN None ELSE chunk.web[1].uri

RECURSIVE FilterStrings(_)
\* .filter((uri) => typeof uri === "string")
FilterStrings(uris) ==
    IF uris = <<>> THEN <<>>
    ELSE IF Head(uris) = None THEN FilterStrings(Tail(uris))
    ELSE <<Head(uris)[1]>> \o FilterStrings(Tail(uris))

RECURSIVE Unique(_)
Unique(s) ==
    IF s = <<>> THEN <<>>
    ELSE LET r == Unique(SubSeq(s, 1, Len(s) - 1))
         IN  IF \E i \in 1..Len(r) : r[i] = s[Len(s)] THEN r ELSE Append(r, s[Len(s)])

\* An extraction that cites every URI once.
ExtractCitationsUnique(resp) ==
    IF ChunksOf(resp) = None THEN [citations |-> <<>>]
    ELSE [citations |->
            Unique(FilterStrings([i \in 1..Len(ChunksOf(resp)[1]) |->
                                    UriOf(ChunksOf(resp)[1][i])]))]

\* extractCitations(response)
ExtractCitations(resp) ==
    IF ChunksOf(resp) = None THEN [citations |-> <<>>]
    ELSE [citations |->
            FilterStrings([i \in 1..Len(ChunksOf(resp)[1]) |->
                            UriOf(ChunksOf(resp)[1][i])])]

\* The arguments of queryStore: the model is optional.
QueryArgs ==
    [storeName : {"fileSearchStores/1"}, query : {"What is the capital?"},
     model : {None, Some("gemini-2.5-flash")}]

\* generateContent({ model, contents, config: { tools: [{ fileSearch }] } })
GenerateContentRequest(a) ==
    [model |-> Coalesce(a.model, "gemini-2.5-pro"), contents |-> a.query,
     fileSearchStoreNames |-> <<a.storeName>>]

\* return { text: extractResponseText(response),
\*          citations: extractCitations(response) }
GenerateContentResult(resp) ==
    LET t == ExtractResponseText(resp)
        c == ExtractCitations(resp)
    IN  IF "threw" \in DOMAIN t THEN t
        ELSE IF "threw" \in DOMAIN c THEN c
        ELSE [text |-> t.text, citations |-> c.citations]

InitQuery ==
    /\ input \in { Some(a) : a \in QueryArgs }
    /\ output = None
    /\ stores = <<>> /\ StoreIdle /\ PollIdle /\ IngestIdle /\ QueryIdle /\ RegistryIdle

\* generateContent rejects: the rejection leaves queryStore.
GenerateContentThrows ==
    /\ input # None /\ output = None
    /\ output' = Some([request |-> GenerateContentRequest(input[1]),
                       response |-> None,
                       result |-> [threw |-> "generateContent request failed"]])
    /\ UNCHANGED <<stores, exceptPure>>

\* generateContent resolves to resp, and queryStore returns what it
\* extracts from it.
GenerateContentReturns(resp) ==
    /\ input # None /\ output = None
    /\ output' = Some([request |-> GenerateContentRequest(input[1]),
                       response |-> Some(resp),
                       result |-> GenerateContentResult(resp)])
    /\ UNCHANGED <<stores, exceptPure>>

NextQuery ==
    \/ GenerateContentThrows
    \/ \E resp \in QueryResponses : GenerateContentReturns(resp)

SpecQuery == InitQuery /\ [][NextQuery]_vars

\* queryStore has received a response.
Answered == output # None /\ output[1].response # None

Response == output[1].response[1]
Result == output[1].result

\* The text joined from the parts of the candidate c.
TextOf(c) ==
    IF c.content = None \/ c.content[1].parts = None THEN ""
    ELSE Join(PartTexts(c.content[1].parts[1]))

\* C18: a response without candidates, or whose first candidate lacks its
\* content, its parts or its grounding metadata, makes queryStore return,
\* not throw: the text is "" when the parts are missing and the citations
\* are empty when the grounding chunks are missing.
C18_ExtractionIsTotal ==
    Answered =>
        /\ "threw" \notin DOMAIN Result
        /\ PartsOf(Response) = None => Result.text = ""
        /\ ChunksOf(Response) = None => Result.citations = <<>>
        /\ (Response.candidates = None \/ Response.candidates = Some(<<>>))
            => Result = [text |-> "", citations |-> <<>>]

\* The case of C18: the first candidate has grounding chunks with URIs but
\* no content, and the answer has citations and the text "".
C18_Witness ==
    /\ Answered
    /\ FirstCandidate(Response) # None
    /\ FirstCandidate(Response)[1].content = None
    /\ Result.text = ""
    /\ Len(Result.citations) = 3

\* Whether the text t is the texts of the parts ps one after the other,
\* a part without text counting as "": t is cut at the ends of the parts.
IsConcatenation(t, ps) ==
    \E cut \in [0..Len(ps) -> 0..Len(t)] :
        /\ cut[0] = 0 /\ cut[Len(ps)] = Len(t)
        /\ \A i \in 1..Len(ps) :
            /\ cut[i - 1] <= cut[i]
            /\ SubSeq(t, cut[i - 1] + 1, cut[i]) = Coalesce(ps[i].text, "")

\* C19: the text of the answer is made of the texts of the parts of the
\* first candidate, in the order of the parts, a part without text adding
\* nothing; the candidates after the first add nothing.
C19_TextOfFirstCandidate ==
    (Answered /\ PartsOf(Response) # None) =>
        /\ IsConcatenation(Result.text, PartsOf(Response)[1])
        /\ Result.text = TextOf(Response.candidates[1][1])

\* The case of C19: the first of two candidates has three parts, one of
\* them without text, and the second candidate has a text of its own.
C19_Witness ==
    /\ Answered
    /\ Len(Coalesce(Response.candidates, <<>>)) = 2
    /\ TextOf(Response.candidates[1][2]) = "Lyon"
    /\ PartsOf(Response) =
         Some(<<TextPart(Some("The capital ")), TextPart(None), TextPart(Some("is Paris."))>>)
    /\ Result.text = "The capital is Paris."

\* The positions of the chunks cs that carry a web URI.
Cited(cs) == { k \in 1..Len(cs) : UriOf(cs[k]) # None }

\* C20: the citations are the web URIs of the grounding chunks of the first
\* candidate that have one, one citation for each such chunk and in the
\* order of the chunks: the n-th citation is the URI of the n-th chunk
\* that has one, so a URI carried by two chunks is cited twice.
C20_CitationsInChunkOrder ==
    (Answered /\ ChunksOf(Response) # None) =>
        LET cs == ChunksOf(Response)[1]
        IN  /\ Len(Result.citations) = Cardinality(Cited(cs))
            /\ \A k \in Cited(cs) :
                 Result.citations[Cardinality({ j \in Cited(cs) : j <= k })]
                    = UriOf(cs[k])[1]

\* The case of C20: four chunks, one without a URI and two with the same
\* one, give three citations, the first and the last of them equal.
C20_Witness ==
    /\ Answered
    /\ ChunksOf(Response) # None
    /\ Len(ChunksOf(Response)[1]) = 4
    /\ Result.citations =
         <<"https://b.example/2", "https://a.example/1", "https://b.example/2">>

(***************************************************************************)
(* Metadata conversion: convertMetadataInput and its way into the upload   *)
(* request of upload_content.                                              *)
(***************************************************************************)
MaxEntries == 3         \* the most entries a metadata input has

Num(n) == [typeof |-> "number", value |-> n]

Digits == "0123456789"

IsDigit(c) == \E i \in 1..Len(Digits) : CharAt(Digits, i) = c

DigitValue(c) == (CHOOSE i \in 1..Len(Digits) : CharAt(Digits, i) = c) - 1

RECURSIVE ParseNat(_)
ParseNat(k) ==
    IF Len(k) = 0 THEN 0
    ELSE 10 * ParseNat(SubSeq(k, 1, Len(k) - 1)) + DigitValue(CharAt(k, Len(k)))

\* Whether the property key k is an integer index: a canonical numeric
\* text, which an object enumerates before its other keys.
IsIntegerKey(k) ==
    /\ Len(k) > 0
    /\ \A i \in 1..Len(k) : IsDigit(CharAt(k, i))
    /\ Len(k) > 1 => CharAt(k, 1) # "0"

RECURSIVE SortByIndex(_)
\* The entries es, all with integer keys, in ascending order of the key.
SortByIndex(es) ==
    IF es = <<>> THEN <<>>
    ELSE LET m == CHOOSE i \in 1..Len(es) :
                    \A j \in 1..Len(es) : ParseNat(es[i].key) <= ParseNat(es[j].key)
         IN  <<es[m]>> \o SortByIndex(SubSeq(es, 1, m - 1) \o SubSeq(es, m + 1, Len(es)))

\* Object.entries(input): the integer keys in ascending order, then the
\* other keys in the order in which the object got them.
ObjectEntries(object) ==
    SortByIndex(SelectSeq(object, LAMBDA e : IsIntegerKey(e.key)))
    \o SelectSeq(object, LAMBDA e : ~IsIntegerKey(e.key))

\* A conversion that sends every value as text.
ConvertAllAsString(metadata) ==
    LET es == ObjectEntries(metadata)
    IN  [i \in 1..Len(es) |-> [key |-> es[i].key, stringValue |-> es[i].value.value]]

\* convertMetadataInput(input)
ConvertMetadataInput(metadata) ==
    LET es == ObjectEntries(metadata)
    IN  [i \in 1..Len(es) |->
            IF es[i].value.typeof = "string"
            THEN [key |-> es[i].key, stringValue |-> es[i].value.value]
            ELSE [key |-> es[i].key, numericValue |-> es[i].value.value]]

\* The metadata keys callers use, two of them integer indices.
MetadataKeys == {"lang", "year", "10", "2", "01"}

\* The values: z.union([z.string(), z.number()]).
MetadataValues == {Str("en"), Num(2025)}

\* A metadata input: its entries, with distinct keys, in the order in
\* which the caller wrote them.
MetadataInputs ==
    UNION { { o \in [1..n -> [key : MetadataKeys, value : MetadataValues]] :
                \A i, j \in 1..n : i # j => o[i].key # o[j].key } :
            n \in 0..MaxEntries }

InitMetadata ==
    /\ input \in { Some(m) : m \in MetadataInputs }
    /\ output = None
    /\ stores = <<>> /\ StoreIdle /\ PollIdle /\ IngestIdle /\ QueryIdle /\ RegistryIdle

\* UploadContentTool.execute converts args.metadata and hands the list to
\* uploadContent, whose uploadBlob puts it into the request config.
UploadContentToolMetadata ==
    /\ input # None /\ output = None
    /\ LET converted == ConvertMetadataInput(input[1])
           a == ContentArg("hello world", "greeting.txt", Some(converted))
       IN  output' = Some([converted |-> converted,
                           request |-> UploadRequest("a", a, ContentMimeType(a.content))])
    /\ UNCHANGED <<stores, exceptPure>>

SpecMetadata == InitMetadata /\ [][UploadContentToolMetadata]_vars

Converted == output[1].converted

\* Each entry of the converted list carries its key and one value field,
\* named after the type of the value of the entry e of the input.
ConvertedFrom(c, e) ==
    /\ c.key = e.key
    /\ IF e.value.typeof = "string"
       THEN DOMAIN c = {"key", "stringValue"} /\ c.stringValue = e.value.value
       ELSE DOMAIN c = {"key", "numericValue"} /\ c.numericValue = e.value.value

EntryPosition(o, i) ==
    IF IsIntegerKey(o[i].key)
    THEN 1 + Cardinality({ j \in 1..Len(o) :
                /\ IsIntegerKey(o[j].key)
                /\ ParseNat(o[j].key) < ParseNat(o[i].key) })
    ELSE 1 + Cardinality({ j \in 1..Len(o) : IsIntegerKey(o[j].key) })
           + Cardinality({ j \in 1..(i - 1) : ~IsIntegerKey(o[j].key) })

Basename(filePath) ==
    LET slashes == { i \in 1..Len(filePath) : CharAt(filePath, i) = "/" }
    IN  IF slashes = {} THEN filePath
        ELSE SubSeq(filePath, (CHOOSE i \in slashes : \A j \in slashes : j <= i) + 1,
                    Len(filePath))

HasDot(name) == \E i \in 1..Len(name) : CharAt(name, i) = "."

\* C30: when no MIME type is given, a path whose base name has no dot gets
\* application/octet-stream, whatever its directory and whatever the text
\* of the base name, and an extension of the table is recognized in any
\* letter case.
C30_NoExtensionIsBinary ==
    (output # None /\ input[1].mimeType = None) =>
        LET base == Basename(input[1].filePath)
            ext  == ToLowerCase(SplitPop(base))
        IN  /\ ~HasDot(base) => output[1] = Str("application/octet-stream")
            /\ (HasDot(base) /\ InTable(ext)) => output[1] = Str(TableEntry(ext))

(***************************************************************************)
(* Configuration: loadConfig reads the environment, validateConfig judges  *)
(* the result.                                                             *)
(***************************************************************************)
\* The environments: each variable unset, set to the empty text, or set.
Environments ==
    [GOOGLE_API_KEY : {None, Some(""), Some("AIza-key")},
     STORE_DISPLAY_NAME : {None, Some(""), Some("docs")},
     LOG_LEVEL : {None, Some(""), Some("debug"), Some("verbose")},
     DEBUG : {None, Some("true")},
     GEMINI_MODEL : {None, Some("gemini-2.5-flash")}]

\* DEFAULT_CONFIG, as loadConfig() returns it in the environment env.
DefaultConfig(env) ==
    [server |-> [name |-> "gemini-rag-mcp", version |-> "1.0.0"],
     mcp |-> [maxResponseSize |-> 100000, defaultPageSize |-> 50],
     logging |-> [level |-> Coalesce(env.LOG_LEVEL, "info"),
                  enableDebugConsole |-> (env.DEBUG = Some("true"))],
     gemini |-> [apiKey |-> Coalesce(env.GOOGLE_API_KEY, ""),
                 storeDisplayName |-> Coalesce(env.STORE_DISPLAY_NAME, "default"),
                 model |-> Coalesce(env.GEMINI_MODEL, "gemini-2.5-pro")]]

ValidLogLevels == {"error", "warn", "info", "debug"}

\* The error validateConfig throws inside its try block, if any.
ValidationError(config) ==
    IF config.mcp.maxResponseSize <= 0 THEN Some("MCP maxResponseSize must be positive")
    ELSE IF config.mcp.defaultPageSize <= 0
         THEN Some("MCP defaultPageSize must be positive")
    ELSE IF config.logging.level \notin ValidLogLevels
         THEN Some("Invalid log level: " \o config.logging.level)
    ELSE IF config.gemini.apiKey = ""
         THEN Some("GOOGLE_API_KEY environment variable is required")
    ELSE IF config.gemini.storeDisplayName = ""
         THEN Some("STORE_DISPLAY_NAME environment variable is required")
    ELSE None

\* validateConfig(config): the catch turns every throw into false.
ValidateConfig(config) ==
    [returned |-> ValidationError(config) = None, threw |-> None,
     logged |-> ValidationError(config)]

InitConfig ==
    /\ input \in { Some(env) : env \in Environments }
    /\ output = None
    /\ stores = <<>> /\ StoreIdle /\ PollIdle /\ IngestIdle /\ QueryIdle /\ RegistryIdle

\* The server loads its configuration and validates it.
LoadAndValidateConfig ==
    /\ input # None /\ output = None
    /\ LET config == DefaultConfig(input[1])
       IN  output' = Some([config |-> config, valid |-> ValidateConfig(config)])
    /\ UNCHANGED <<stores, exceptPure>>

SpecConfig == InitConfig /\ [][LoadAndValidateConfig]_vars

\* C25: a configuration loaded from an environment in which GOOGLE_API_KEY
\* or STORE_DISPLAY_NAME is not set is rejected, validateConfig returning
\* false; and validateConfig never throws, whatever it rejects.
C25_RequiredVariables ==
    output # None =>
        /\ output[1].valid.threw = None
        /\ (input[1].GOOGLE_API_KEY = None \/ input[1].STORE_DISPLAY_NAME = None)
            => output[1].valid.returned = FALSE

(***************************************************************************)
(* The tool registry: initialize, setupToolHandlers, getToolByName.        *)
(***************************************************************************)
\* The ToolContext values the registry is initialized with.
ToolContexts ==
    [storeDisplayName : {"docs", "default"},
     defaultModel : {"gemini-2.5-pro", "gemini-2.5-flash"}]

\* const tools = [new EnsureStoreTool(context), new ListStoresTool(context),
\*                new UploadFileTool(context), new QueryStoreTool(context)]
ToolsOf(context) ==
    << [name |-> "ensure_store", context |-> context],
       [name |-> "list_stores", context |-> context],
       [name |-> "upload_file", context |-> context],
       [name |-> "query_store", context |-> context] >>

\* Map.prototype.get
MapGet(map, name) ==
    IF \E i \in 1..Len(map) : map[i].name = name
    THEN Some(map[CHOOSE i \in 1..Len(map) : map[i].name = name])
    ELSE None

\* Map.prototype.set: a known key keeps its place and gets the new value, a
\* new key goes to the end.
MapSet(map, tool) ==
    IF \E i \in 1..Len(map) : map[i].name = tool.name
    THEN [i \in 1..Len(map) |-> IF map[i].name = tool.name THEN tool ELSE map[i]]
    ELSE Append(map, tool)

RECURSIVE MapSetAll(_, _)
\* for (const tool of tools) this.toolInstances.set(tool.name, tool)
MapSetAll(map, tools) ==
    IF tools = <<>> THEN map ELSE MapSetAll(MapSet(map, Head(tools)), Tail(tools))

\* The names asked of getToolByName: the tools of the README and others.
ToolNames ==
    {"ensure_store", "list_stores", "upload_file", "upload_content", "query_store",
     "query"}

InitRegistry ==
    /\ stores = <<>> /\ StoreIdle /\ PollIdle /\ IngestIdle /\ QueryIdle /\ RegistryIdle
    /\ input = None /\ output = None

\* initialize(context)
Initialize(context) ==
    /\ toolInstances' = MapSetAll(toolInstances, ToolsOf(context))
    /\ UNCHANGED <<registeredTools, input, output>>
    /\ UNCHANGED <<storeVars, pollVars, ingestVars, queryVars>>

\* setupToolHandlers(): every instance is registered with the server and
\* its name pushed; the server refuses a name it already has, so a second
\* run throws at its first tool and changes nothing.
SetupToolHandlers ==
    /\ registeredTools' =
         IF \E i \in 1..Len(toolInstances), j \in 1..Len(registeredTools) :
                toolInstances[i].name = registeredTools[j]
         THEN registeredTools
         ELSE registeredTools \o [i \in 1..Len(toolInstances) |-> toolInstances[i].name]
    /\ UNCHANGED <<toolInstances, input, output>>
    /\ UNCHANGED <<storeVars, pollVars, ingestVars, queryVars>>

\* getToolByName(name)
GetToolByName(name) ==
    /\ input' = Some(name)
    /\ output' = Some(MapGet(toolInstances, name))
    /\ UNCHANGED <<toolInstances, registeredTools>>
    /\ UNCHANGED <<storeVars, pollVars, ingestVars, queryVars>>

NextRegistry ==
    \/ \E context \in ToolContexts : Initialize(context)
    \/ SetupToolHandlers
    \/ \E name \in ToolNames : GetToolByName(name)

SpecRegistry == InitRegistry /\ [][NextRegistry]_vars

IsRegistered(name) == \E j \in 1..Len(registeredTools) : registeredTools[j] = name

\* C24: once the registry is initialized and its handlers are set up, the
\* tools upload_file, upload_content and query_store are registered with
\* the server, and getToolByName finds each of them.
C24_ToolsRegistered ==
    (toolInstances # <<>> /\ registeredTools # <<>>) =>
        \A name \in {"upload_file", "upload_content", "query_store"} :
            /\ IsRegistered(name)
            /\ MapGet(toolInstances, name) # None
            /\ input = Some(name) => output # Some(None)


(***************************************************************************)
(* Independence of concurrent ingestion calls, checked under SpecIngest.   *)
(***************************************************************************)
\* Everything one ingestion call holds: its arguments and result, and the
\* locals of the poller it started.
CallState(p) ==
    <<upc[p], ucall[p], uresult[p], wpc[p], operation[p], current[p],
      received[p], trace[p], outcome[p]>>

\* C27, in every state: the snapshot a call looks at is the operation its own
\* upload request returned or a refresh of it; a call that has returned had
\* its own operation end done without error and returns the documentName of
\* that snapshot (or a local identifier when it has none); a call that has
\* thrown after its upload was accepted had its own poller throw, and ends
\* with that poller's message.
C27_State ==
    \A p \in Procs :
        /\ wpc[p] # "idle"
            => /\ upc[p] # "idle" /\ UploadsBy(p) # {}
               /\ current[p] \in {operation[p], received[p]}
        /\ upc[p] = "returned"
            => /\ wpc[p] = "returned"
               /\ outcome[p] = Some(PollReturned(current[p]))
               /\ IsDone(current[p][1]) /\ ~HasError(current[p][1])
               /\ IF HasDocumentName(current[p][1])
                  THEN uresult[p][1].documentName = current[p][1].response[1].documentName
                  ELSE uresult[p][1].documentName[1] \in UUIDs
        /\ (upc[p] = "threw" /\ wpc[p] # "idle")
            => /\ wpc[p] = "threw"
               /\ uresult[p] = Some(UploadThrew(outcome[p][1].message))

\* C27, in every step: a step changes the state of one call at most, and the
\* operation a call polls is the one its own upload request resolved to.
C27_Step ==
    /\ \A p, q \in Procs :
        (p # q /\ CallState(p)' # CallState(p)) => CallState(q)' = CallState(q)
    /\ \A p \in Procs :
        (upc[p] = "submitting" /\ upc'[p] = "polling")
        => /\ operation'[p] # None
           /\ UploadRequestReturns(p, operation'[p][1])

\* C27: ingestion calls in flight together do not interfere.
C27_ConcurrentCallsIndependent == []C27_State /\ [][C27_Step]_vars

\* The case of C27: two calls were polled with refreshes; the operation of
\* one failed and that call threw, the other returned the documentName of
\* its own operation.
C27_Witness ==
    \E p, q \in Procs :
        /\ p # q
        /\ upc[q] = "threw" /\ wpc[q] = "threw" /\ Gets(q) > 0
        /\ IsDone(current[q][1]) /\ HasError(current[q][1])
        /\ upc[p] = "returned" /\ Gets(p) > 0
        /\ uresult[p][1].documentName = Some("fileSearchStores/1/documents/d1")
        /\ current[p] # current[q]


(***************************************************************************)
(* Termination of the poller and of ingestion. The backend is taken to     *)
(* answer every request, and to answer with a terminal snapshot or a       *)
(* malformed value by the MaxPolls-th refresh at the latest.               *)
(***************************************************************************)
\* A refresh that ends polling: done = true, or a value that is no object.
Terminal(next) ==
    next.done = Some(TRUE) \/ next.typeof # "object" \/ next.isNull

\* operations.get resolves to next, where the backend turns terminal after
\* finitely many refreshes.
GetReturnsFinitely(p, next) ==
    /\ Gets(p) = MaxPolls => Terminal(next)
    /\ GetReturns(p, next)

\* The pending operations.get settles, one way or the other.
GetSettles(p) == GetThrows(p) \/ \E next \in IngestRefreshes : GetReturnsFinitely(p, next)

\* The pending uploadToFileSearchStore settles.
UploadRequestSettles(p) ==
    UploadRequestThrows(p) \/ \E o \in IngestOperations : UploadRequestReturns(p, o)

NextLive ==
    \E p \in Procs :
        \/ UploadContent(p, ContentArg("hello world", "greeting.txt", None))
        \/ UploadRequestThrows(p)
        \/ \E o \in IngestOperations : UploadRequestReturns(p, o)
        \/ TimerFires(p)
        \/ GetThrows(p)
        \/ \E next \in IngestRefreshes : GetReturnsFinitely(p, next)
        \/ UploadBlobResumes(p)

\* setTimeout fires, pending requests settle and a settled await resumes.
FairLive ==
    \A p \in Procs :
        /\ WF_vars(TimerFires(p))
        /\ WF_vars(GetSettles(p))
        /\ WF_vars(UploadRequestSettles(p))
        /\ WF_vars(UploadBlobResumes(p))

\* Ingestion against a backend that answers and turns terminal.
SpecLive == InitIngest /\ [][NextLive]_vars /\ FairLive

\* The poller goes on only past snapshots that are not done, and ends on the
\* snapshot it holds: returned when that one is done without error, thrown
\* when it is done with an error, when the refresh was no object, or when
\* the refresh request was rejected.
C26_EndsAtFirstTerminal ==
    \A p \in Procs :
        /\ wpc[p] \in {"sleeping", "getting"} => current[p][1].done # Some(TRUE)
        /\ wpc[p] = "returned"
            => /\ current[p][1].done = Some(TRUE) /\ current[p][1].error = None
               /\ outcome[p] = Some(PollReturned(current[p]))
        /\ wpc[p] = "threw"
            => \/ current[p][1].done = Some(TRUE) /\ current[p][1].error # None
               \/ received[p] # None /\ IsNotObject(received[p][1])
               \/ outcome[p] = Some(PollThrew("operation get request failed"))

\* C26: with a backend that answers done = true or a malformed value after
\* finitely many refreshes, a poller that has started eventually ends, at
\* the first terminal snapshot it sees, and an ingestion call that has been
\* made eventually returns or throws.
C26_PollerTerminates ==
    /\ []C26_EndsAtFirstTerminal
    /\ \A p \in Procs :
        /\ (wpc[p] \in {"sleeping", "getting"}) ~> (wpc[p] \in {"returned", "threw"})
        /\ (upc[p] \in {"submitting", "polling"}) ~> (upc[p] \in {"returned", "threw"})

\* The case of C26: a call returned after MaxPolls refreshes, the last of
\* which was the first done snapshot, while the other call ended on a
\* malformed refresh.
C26_Witness ==
    \E p, q \in Procs :
        /\ upc[p] = "returned" /\ Gets(p) = MaxPolls
        /\ ~IsDone(operation[p][1]) /\ IsDone(received[p][1])
        /\ upc[q] = "threw" /\ Gets(q) > 0 /\ received[q] = Some(Primitive("undefined"))


(***************************************************************************)
(* The tools upload_file, upload_content and query_store: each invocation  *)
(* resolves the configured store with ensureStore, then makes one client   *)
(* call with the name of the store it got. getStore is a client call of    *)
(* its own.                                                                *)
(***************************************************************************)
MaxInvocations == 3     \* tool invocations made in one behaviour

ToolOps == {"upload_file", "upload_content", "query_store"}

UploadOps == {"upload_file", "upload_content"}

\* The backends the tools start on: empty, or holding one store.
ToolBackends == { b \in InitBackends : Len(b) <= 1 }

\* The arguments of the tools, as the caller gives them.
UploadFileToolArgs ==
    [filePath : {"/docs/guide.md"}, mimeType : {None}, displayName : {None}]

UploadContentToolArgs ==
    [content : {"hello world"}, displayName : {"greeting.txt"},
     metadata : {None, Some(<<[key |-> "lang", value |-> Str("en")]>>)}]

QueryStoreToolArgs == [query : {"What is the capital?"}]

\* context.defaultModel
DefaultModel == "gemini-2.5-pro"

\* What the upload operation of a tool invocation starts as and is refreshed
\* to: unfinished, finished with a document, or failed.
ToolOperations ==
    { WithResponse(OperationObject(Some(FALSE), None), None),
      WithResponse(OperationObject(Some(TRUE), None),
                   Some([documentName |-> Some("fileSearchStores/1/documents/d1")])),
      WithResponse(OperationObject(Some(TRUE), Some([message |-> Some("quota exceeded"),
                                                      code |-> Some(8)])), None) }

\* The refreshes of such an operation, which end it.
ToolRefreshes == { o \in ToolOperations : o.done = Some(TRUE) }

\* The responses generateContent gives a tool invocation: one without
\* candidates, one with a text and a citation.
ToolResponses ==
    { [candidates |-> None],
      [candidates |-> Some(<<[content |-> Some([parts |-> Some(<<TextPart(Some("Paris"))>>)]),
                              groundingMetadata |->
                                  Some([groundingChunks |->
                                      Some(<<WebChunk(Some("https://a.example/1"))>>)])]>>)] }

\* The store ensureStore returned to the invocation of p.
Ensured(p) == result[p].store[1]

\* A tool that hands the configured display name on as the identifier.
StoreNameByDisplayName(p) == arg[p]

\* storeName: store.name, of the store ensureStore returned to the tool.
StoreName(p) == result[p].store[1].name

\* The invocation of p has ended: ensureStore threw, or the client call
\* that followed it has returned or thrown.
InvocationEnded(p) ==
    \/ pc[p] = "threw"
    \/ pc[p] = "returned" /\ (upc[p] \in {"returned", "threw"} \/ qpc[p] \in {"returned", "threw"})

\* The invocations begun so far.
Invocations == Len(completed) + Cardinality(InFlight)

\* An invocation begins with fresh locals.
FreshLocals(p) ==
    /\ wpc' = [wpc EXCEPT ![p] = "idle"]
    /\ operation' = [operation EXCEPT ![p] = None]
    /\ current' = [current EXCEPT ![p] = None]
    /\ received' = [received EXCEPT ![p] = None]
    /\ trace' = [trace EXCEPT ![p] = <<>>]
    /\ outcome' = [outcome EXCEPT ![p] = None]
    /\ upc' = [upc EXCEPT ![p] = "idle"]
    /\ ucall' = [ucall EXCEPT ![p] = None]
    /\ uresult' = [uresult EXCEPT ![p] = None]
    /\ qpc' = [qpc EXCEPT ![p] = "idle"]
    /\ qcall' = [qcall EXCEPT ![p] = None]
    /\ qresult' = [qresult EXCEPT ![p] = None]

\* The tool o is invoked: execute calls ensureStore(storeDisplayName), which
\* begins with listStores(). A caller's second invocation is a query_store
\* that follows its upload.
ToolCall(p, o) ==
    /\ \/ pc[p] = "idle" /\ (p = "b" => pc["a"] # "idle")
       \/ InvocationEnded(p) /\ op[p] \in UploadOps /\ o = "query_store"
    /\ Invocations < MaxInvocations
    /\ CallBody(p, o, StoreDisplayName)
    /\ FreshLocals(p)
    /\ UNCHANGED <<uploads, generations, registryVars, pureVars>>

\* UploadFileTool.execute after ensureStore: it settles the display name and
\* the MIME type and calls uploadFile with the name of the store.
UploadFileToolExecute(p, targs) ==
    /\ pc[p] = "returned" /\ op[p] = "upload_file"
    /\ UploadFile(p, [fn |-> "uploadFile", storeName |-> StoreName(p),
                      filePath |-> targs.filePath, content |-> "",
                      mimeType |-> MimeTypeOf(targs),
                      displayName |-> Coalesce(targs.displayName, Basename(targs.filePath)),
                      metadata |-> None])

\* UploadContentTool.execute after ensureStore: it converts the metadata, if
\* any, and calls uploadContent with the name of the store.
UploadContentToolExecute(p, targs) ==
    /\ pc[p] = "returned" /\ op[p] = "upload_content"
    /\ UploadContent(p, [fn |-> "uploadContent", storeName |-> StoreName(p),
                         filePath |-> "", content |-> targs.content, mimeType |-> "",
                         displayName |-> targs.displayName,
                         metadata |-> IF targs.metadata = None THEN None
                                      ELSE Some(ConvertMetadataInput(targs.metadata[1]))])

\* A queryStore that sends its request a second time.
GenerationsSentTwice(p, a) ==
    <<[by |-> p, request |-> GenerateContentRequest(a)],
      [by |-> p, request |-> GenerateContentRequest(a)]>>

\* The generateContent requests one queryStore call sends.
GenerationsSent(p, a) == <<[by |-> p, request |-> GenerateContentRequest(a)]>>

\* QueryStoreTool.execute after ensureStore: it calls queryStore with the
\* name of the store, which sends generateContent.
QueryStoreToolExecute(p, targs) ==
    /\ pc[p] = "returned" /\ op[p] = "query_store"
    /\ qpc[p] = "idle"
    /\ LET a == [storeName |-> StoreName(p), query |-> targs.query,
                 model |-> Some(DefaultModel)]
       IN  /\ qcall' = [qcall EXCEPT ![p] = Some(a)]
           /\ generations' = generations \o GenerationsSent(p, a)
    /\ qpc' = [qpc EXCEPT ![p] = "generating"]
    /\ UNCHANGED qresult
    /\ UNCHANGED <<storeVars, pollVars, ingestVars, registryVars, pureVars>>

\* generateContent rejects: the rejection leaves queryStore and the tool.
QueryStoreThrows(p) ==
    /\ qpc[p] = "generating"
    /\ qpc' = [qpc EXCEPT ![p] = "threw"]
    /\ qresult' = [qresult EXCEPT ![p] = Some([threw |-> "generateContent request failed"])]
    /\ UNCHANGED <<qcall, generations>>
    /\ UNCHANGED <<storeVars, pollVars, ingestVars, registryVars, pureVars>>

\* generateContent resolves to resp: queryStore returns what it extracts.
QueryStoreReturns(p, resp) ==
    /\ qpc[p] = "generating"
    /\ LET r == GenerateContentResult(resp)
       IN  /\ qresult' = [qresult EXCEPT ![p] = Some(r)]
           /\ qpc' = [qpc EXCEPT ![p] = IF "threw" \in DOMAIN r THEN "threw" ELSE "returned"]
    /\ UNCHANGED <<qcall, generations>>
    /\ UNCHANGED <<storeVars, pollVars, ingestVars, registryVars, pureVars>>

\* What fileSearchStores.get({ name }) may resolve to: the store, or an
\* object whose name is missing or empty.
GetResponses(name) ==
    { [name |-> Some(name), displayName |-> Some("docs")],
      [name |-> None, displayName |-> Some("docs")],
      [name |-> Some(""), displayName |-> None] }

\* if (!store.name) throw new Error(`FileSearchStore not found: ${name}`);
\* return { name: store.name, displayName: store.displayName }
GetStore(response, name) ==
    IF response.name = None \/ response.name = Some("")
    THEN Threw("FileSearchStore not found: " \o name)
    ELSE Returned(Some([name |-> response.name[1], displayName |-> response.displayName]))

\* getStore(name) is called: it awaits fileSearchStores.get({ name }).
GetStoreCall(p, name) ==
    /\ pc[p] = "idle" /\ (p = "b" => pc["a"] # "idle")
    /\ pc' = [pc EXCEPT ![p] = "get"]
    /\ op' = [op EXCEPT ![p] = "getStore"]
    /\ arg' = [arg EXCEPT ![p] = name]
    /\ UNCHANGED <<stores, listed, found, result, requests, appended, startLen,
                   startSeq, startHad, completed>>
    /\ UNCHANGED exceptStore

\* fileSearchStores.get rejects: the rejection leaves getStore.
GetStoreThrows(p) ==
    /\ pc[p] = "get"
    /\ pc' = [pc EXCEPT ![p] = "threw"]
    /\ result' = [result EXCEPT ![p] = Threw("get request failed")]
    /\ UNCHANGED <<stores, op, arg, listed, found, requests, appended, startLen,
                   startSeq, startHad, completed>>
    /\ UNCHANGED exceptStore

\* fileSearchStores.get resolves to response.
GetStoreReturns(p, response) ==
    /\ pc[p] = "get"
    /\ LET r == GetStore(response, arg[p])
       IN  /\ result' = [result EXCEPT ![p] = r]
           /\ pc' = [pc EXCEPT ![p] = IF r.store = None THEN "threw" ELSE "returned"]
    /\ UNCHANGED <<stores, op, arg, listed, found, requests, appended, startLen,
                   startSeq, startHad, completed>>
    /\ UNCHANGED exceptStore

NextTools ==
    \E p \in Procs :
        \/ \E o \in ToolOps : ToolCall(p, o)
        \/ ListStoresThrows(p)
        \/ ListStoresReturns(p)
        \/ CreateStoreThrows(p)
        \/ \E named \in BOOLEAN : CreateStoreReturns(p, named)
        \/ \E targs \in UploadFileToolArgs : UploadFileToolExecute(p, targs)
        \/ ReadFileThrows(p)
        \/ ReadFileReturns(p)
        \/ \E targs \in UploadContentToolArgs : UploadContentToolExecute(p, targs)
        \/ UploadRequestThrows(p)
        \/ \E o \in ToolOperations : UploadRequestReturns(p, o)
        \/ TimerFires(p)
        \/ GetThrows(p)
        \/ \E next \in ToolRefreshes : GetReturns(p, next)
        \/ UploadBlobResumes(p)
        \/ \E targs \in QueryStoreToolArgs : QueryStoreToolExecute(p, targs)
        \/ QueryStoreThrows(p)
        \/ \E resp \in ToolResponses : QueryStoreReturns(p, resp)
        \/ GetStoreCall(p, StoreId(1))
        \/ GetStoreThrows(p)
        \/ \E response \in GetResponses(arg[p]) : GetStoreReturns(p, response)

InitTools ==
    /\ stores \in ToolBackends
    /\ StoreIdle /\ PollIdle /\ IngestIdle /\ PureIdle

\* The tools, with concurrent invocations.
SpecTools == InitTools /\ [][NextTools]_vars


(***************************************************************************)
(* Properties of the tools, checked under SpecTools.                       *)
(***************************************************************************)
\* The generateContent requests sent on behalf of the caller p.
GenerationsBy(p) == { i \in 1..Len(generations) : generations[i].by = p }

\* C21, in every state: the client call of an invocation carries the name of
\* the store its own ensureStore returned, and so do the upload and the
\* generation requests it has sent; no request carries the configured
\* display name as the store identifier.
C21_State ==
    /\ \A p \in Procs :
        /\ (op[p] \in ToolOps /\ (upc[p] # "idle" \/ qpc[p] # "idle"))
            => /\ pc[p] = "returned" /\ arg[p] = StoreDisplayName
               /\ \/ found[p] = Some(Ensured(p))
                  \/ \E i \in (startLen[p] + 1)..Len(stores) :
                         /\ stores[i].name = Some(Ensured(p).name)
                         /\ stores[i].displayName = Ensured(p).displayName
        /\ (op[p] \in UploadOps /\ upc[p] # "idle")
            => /\ ucall[p][1].storeName = Ensured(p).name
               /\ \A i \in UploadsBy(p) : uploads[i].fileSearchStoreName = Ensured(p).name
        /\ (op[p] = "query_store" /\ qpc[p] # "idle")
            => /\ qcall[p][1].storeName = Ensured(p).name
               /\ \A i \in GenerationsBy(p) :
                      generations[i].request.fileSearchStoreNames = <<Ensured(p).name>>
    /\ \A i \in 1..Len(uploads) : uploads[i].fileSearchStoreName # StoreDisplayName
    /\ \A i \in 1..Len(generations) :
           generations[i].request.fileSearchStoreNames # <<StoreDisplayName>>

\* C21, in every step: a request that is sent carries the name of the store
\* ensureStore has returned to the invocation that sends it.
C21_Step ==
    /\ Len(uploads') > Len(uploads)
        => LET r == uploads'[Len(uploads')]
           IN  /\ pc[r.by] = "returned" /\ op[r.by] \in UploadOps
               /\ r.fileSearchStoreName = result[r.by].store[1].name
    /\ Len(generations') > Len(generations)
        => LET g == generations'[Len(generations')]
           IN  /\ pc[g.by] = "returned" /\ op[g.by] = "query_store"
               /\ g.request.fileSearchStoreNames = <<result[g.by].store[1].name>>

\* C21: every upload_file, upload_content and query_store invocation sends
\* the name of the store its own ensureStore returned as the store
\* identifier of its request, and never the configured display name.
C21_StoreNameIsIdentifier == []C21_State /\ [][C21_Step]_vars

\* The case of C21: an upload_file, an upload_content and a query_store
\* invocation have each sent their request to the store with the display
\* name "docs" that the first of them created.
C21_Witness ==
    /\ \E i, j \in 1..Len(uploads) :
        /\ uploads[i].fn = "uploadFile" /\ uploads[j].fn = "uploadContent"
        /\ uploads[i].fileSearchStoreName = StoreId(1)
        /\ uploads[j].fileSearchStoreName = StoreId(1)
    /\ \E i \in 1..Len(generations) :
        generations[i].request.fileSearchStoreNames = <<StoreId(1)>>
    /\ stores = <<NewStore(<<>>, StoreDisplayName)>>


\* Whether the handle carries an identifier.
Named(store) == store.name # ""

\* C23: no Store handle that listStores, findStoreByDisplayName, ensureStore,
\* createStore or getStore has handed out has an empty name, and no upload
\* or generation request names a store by the empty string.
C23_NoStoreWithoutIdentifier ==
    /\ \A p \in Procs :
        /\ \A i \in 1..Len(listed[p]) : Named(listed[p][i])
        /\ found[p] # None => Named(found[p][1])
        /\ result[p].store # None => Named(result[p].store[1])
    /\ \A i \in 1..Len(uploads) : uploads[i].fileSearchStoreName # ""
    /\ \A i \in 1..Len(generations) : generations[i].request.fileSearchStoreNames # <<"">>


\* How far the calls of an invocation have come: a call moves forward only.
StoreRank(s) ==
    IF s = "idle" THEN 0 ELSE IF s = "list" THEN 1 ELSE IF s = "create" THEN 2 ELSE 3

UploadRank(s) ==
    IF s = "idle" THEN 0 ELSE IF s = "reading" THEN 1 ELSE IF s = "submitting" THEN 2
    ELSE IF s = "polling" THEN 3 ELSE 4

QueryRank(s) == IF s = "idle" THEN 0 ELSE IF s = "generating" THEN 1 ELSE 2

\* A call of the invocation of p has failed.
Failed(p) == pc[p] = "threw" \/ upc[p] = "threw" \/ qpc[p] = "threw"

\* The backend requests of p other than polling that are under way or done.
RequestState(p) == <<pc[p], upc[p], qpc[p], wpc[p], UploadsBy(p), GenerationsBy(p)>>

\* C22, in every state: an invocation has sent one upload request at most
\* and one generation request at most, and exactly one once queryStore has
\* been called; a call that failed on a request ended with the error of
\* that request.
C22_State ==
    \A p \in Procs :
        /\ Cardinality(UploadsBy(p)) <= 1
        /\ Cardinality(GenerationsBy(p)) <= 1
        /\ qpc[p] # "idle" => Cardinality(GenerationsBy(p)) = 1
        /\ upc[p] \in {"submitting", "polling"} => Cardinality(UploadsBy(p)) = 1
        /\ requests[p] <= 1
        /\ (pc[p] = "threw" /\ op[p] \in ToolOps)
            => /\ result[p].store = None
               /\ result[p].message \in {"list request failed", "create request failed",
                                         "Failed to create FileSearchStore"}
               /\ upc[p] = "idle" /\ qpc[p] = "idle" /\ wpc[p] = "idle"
        /\ (upc[p] = "threw" /\ wpc[p] = "idle" /\ UploadsBy(p) # {})
            => uresult[p] = Some(UploadThrew("upload request failed"))
        /\ (qpc[p] = "threw" /\ qresult[p] # None /\ "threw" \in DOMAIN qresult[p][1])
            => qresult[p][1].threw = "generateContent request failed"

\* C22, in every step that is not a new invocation of p: the calls of p move
\* forward only, so that the list request, the create request, the upload
\* request and the generation request are each sent once at most; a request
\* is sent from the one place of the call that sends it; and once a call of
\* p has failed, p sends nothing more.
C22_Step ==
    \A p \in Procs :
        (\E o \in ToolOps : ToolCall(p, o))
        \/ /\ StoreRank(pc'[p]) >= StoreRank(pc[p])
           /\ UploadRank(upc'[p]) >= UploadRank(upc[p])
           /\ QueryRank(qpc'[p]) >= QueryRank(qpc[p])
           /\ pc'[p] = "list" => pc[p] = "list"
           /\ (pc'[p] = "create" /\ pc[p] # "create") => (pc[p] = "list" /\ requests[p] = 0)
           /\ UploadsBy(p)' # UploadsBy(p)
               => /\ upc[p] \in {"idle", "reading"} /\ upc'[p] = "submitting"
                  /\ Len(uploads') = Len(uploads) + 1
           /\ GenerationsBy(p)' # GenerationsBy(p)
               => /\ qpc[p] = "idle" /\ qpc'[p] = "generating"
                  /\ Len(generations') = Len(generations) + 1
           /\ Failed(p) => RequestState(p)' = RequestState(p)

\* C22: within one call the list, create, upload and generation requests
\* are sent once at most (queryStore sends exactly one generation request),
\* and the first failure ends the call, which sends no further request.
C22_NoRetries == []C22_State /\ [][C22_Step]_vars

\* The case of C22: the create request of one invocation failed; the upload
\* request of another failed, and the generation request of the query that
\* followed it failed too; each was sent once.
C22_Witness ==
    \E p, q \in Procs :
        /\ p # q
        /\ pc[p] = "threw" /\ result[p].message = "create request failed"
        /\ op[q] = "query_store" /\ qpc[q] = "threw" /\ Cardinality(GenerationsBy(q)) = 1
        /\ \E i \in UploadsBy(q) : uploads[i].fn = "uploadContent"
        /\ Len(completed) = MaxInvocations


\* The documents uploaded so far went to one store.
OneStore ==
    \A i, j \in 1..Len(uploads) :
        uploads[i].fileSearchStoreName = uploads[j].fileSearchStoreName

\* The upload invocations whose ensureStore had returned before the
\* invocation of p began.
UploadsBefore(p) ==
    { k \in 1..startSeq[p] :
        completed[k].op \in UploadOps /\ completed[k].status = "returned" }

\* A query_store invocation searches the store of the uploads before it.
QuerySearchesIt ==
    \A p \in Procs :
        (op[p] = "query_store" /\ qpc[p] # "idle")
        => \A k \in UploadsBefore(p) :
               /\ qcall[p][1].storeName = completed[k].store[1].name
               /\ \A i \in GenerationsBy(p) :
                      generations[i].request.fileSearchStoreNames
                          = <<completed[k].store[1].name>>

\* C28 as stated: all uploads under the configured display name go to one
\* store and a later query_store searches that store, concurrent uploads
\* with no store to begin with included.
C28_OneStoreAlways == OneStore /\ QuerySearchesIt

\* No two invocations resolved the store at the same time unless a store
\* with the display name existed when they began.
NoRaceWithoutStore ==
    \A i, j \in Calls :
        Overlap(i, j) => (completed[i].startHad /\ completed[j].startHad)

\* C28, amended: when the ensureStore calls of the invocations did not
\* overlap, or a store with the display name existed when the overlapping
\* ones began, all uploads go to one store and a later query_store searches
\* that store.
C28_OneStoreUnlessRaced == NoRaceWithoutStore => (OneStore /\ QuerySearchesIt)

\* The case of C28: with no store to begin with, an upload_file, an
\* upload_content and then a query_store invocation ran one after the
\* other; the first created the store, and all three requests name it.
C28_Witness ==
    /\ Len(completed) = 3
    /\ \A i, j \in Calls : i < j => Sequential(i, j)
    /\ ~completed[1].startHad /\ completed[1].appended = 1
    /\ completed[1].op \in UploadOps /\ completed[2].op \in UploadOps
    /\ completed[1].op # completed[2].op
    /\ completed[3].op = "query_store"
    /\ Len(uploads) = 2 /\ OneStore
    /\ Len(generations) = 1
    /\ generations[1].request.fileSearchStoreNames = <<uploads[1].fileSearchStoreName>>
    /\ uploads[1].fileSearchStoreName = completed[1].store[1].name

====
